---- MODULE Spec2Model ----
(***************************************************************************)
(* Model of the API error classification and formatting engine of          *)
(* packages/core/src/utils/errorParsing.ts (parseError and                 *)
(* parseAndFormatApiError).                                                *)
(*                                                                         *)
(* Text is a sequence of tokens.  A token stands for a chunk of characters:*)
(* a brace, a comma, a JSON key, a JSON literal, the three members         *)
(* "code":c,"message":m,"status":s of an API error body, a word of prose,  *)
(* or a literal piece of an output template.  JSON.parse, indexOf,         *)
(* lastIndexOf and substring are computed over these tokens.               *)
(***************************************************************************)
EXTENDS Integers, Sequences, FiniteSets, TLC

VARIABLES error, ctx, pc, parsed, text, reparsed, dialogContent, shown, app, uiState, rendered

vars == <<error, ctx, pc, parsed, text, reparsed, dialogContent, shown, app, uiState, rendered>>

\* The variables of the error parsing and of the InformationDialog.
errVars == <<error, ctx, pc, parsed, text, reparsed, dialogContent, shown>>

\* ------------------------------------------------------------ bounds
\* Longest run of prose words in a message or around a JSON payload.
MaxWords == 1
\* Deepest nesting of a JSON-encoded API error inside a message field.
MaxNest == 2
\* Longest string of arbitrary tokens (malformed and truncated JSON).
MaxLen == 3

\* ------------------------------------------------------------ text
Tok(k) == [k |-> k, c |-> <<>>, m |-> <<>>, s |-> <<>>]

\* The members "code":c,"message":m,"status":s of an error body.  A member
\* that is missing or has the wrong type is <<>>.
BodyTok(c, m, s) == [k |-> "body", c |-> c, m |-> m, s |-> s]

LB == Tok("{")
RB == Tok("}")
COMMA == Tok(",")
ERRKEY == Tok("\"error\":")
XKEY == Tok("\"x\":")
LIT == Tok("null")

\* Prose words: plain text, the pro-quota metric signature, the generic
\* quota metric signature, and text that reads like an auth failure.
W == Tok("w")
QPRO == Tok("Quota exceeded for quota metric 'pro'")
QGEN == Tok("Quota exceeded for quota metric")
AUTHW == Tok("Unauthorized")

Words == {W, QPRO, QGEN, AUTHW}

SeqsUpTo(S, n) == UNION {[1..i -> S] : i \in 0..n}

\* String.prototype.includes for a signature that is one token.
Includes(t, tok) == \E i \in 1..Len(t) : t[i] = tok

\* String.prototype.indexOf / lastIndexOf, 1-based; 0 stands for -1.
IndexOfTok(t, tok) ==
    IF \E i \in 1..Len(t) : t[i] = tok
    THEN CHOOSE i \in 1..Len(t) : t[i] = tok /\ \A j \in 1..(i-1) : t[j] # tok
    ELSE 0

LastIndexOfTok(t, tok) ==
    IF \E i \in 1..Len(t) : t[i] = tok
    THEN CHOOSE i \in 1..Len(t) : t[i] = tok /\ \A j \in (i+1)..Len(t) : t[j] # tok
    ELSE 0

\* indexOf of the two-token marker {"error":
IsMarkerAt(t, i) == i + 1 <= Len(t) /\ t[i] = LB /\ t[i+1] = ERRKEY

IndexOfMarker(t) ==
    IF \E i \in 1..Len(t) : IsMarkerAt(t, i)
    THEN CHOOSE i \in 1..Len(t) : IsMarkerAt(t, i) /\ \A j \in 1..(i-1) : ~IsMarkerAt(t, j)
    ELSE 0

\* ------------------------------------------------------------ JSON.parse
\* A parsed value: a literal or an object.  Of an object the model keeps the
\* "error" member (<<>> when absent, else <<value>>) and the members code,
\* message and status (<<>> when absent or of the wrong type).
LitVal == [t |-> "lit", err |-> <<>>, c |-> <<>>, m |-> <<>>, s |-> <<>>]
EmptyObj == [t |-> "obj", err |-> <<>>, c |-> <<>>, m |-> <<>>, s |-> <<>>]

ParseFail == [ok |-> FALSE, val |-> LitVal, rest |-> <<>>]
ParseOk(v, rest) == [ok |-> TRUE, val |-> v, rest |-> rest]

RECURSIVE ParseValue(_)
RECURSIVE ParseMembers(_, _)

\* After one member: a closing brace ends the object, a comma continues it.
ParseAfterMember(acc, rest) ==
    IF rest = <<>> THEN ParseFail
    ELSE IF Head(rest) = RB THEN ParseOk(acc, Tail(rest))
    ELSE IF Head(rest) = COMMA THEN ParseMembers(Tail(rest), acc)
    ELSE ParseFail

ParseMembers(t, acc) ==
    IF t = <<>> THEN ParseFail
    ELSE IF Head(t).k = "body"
    THEN ParseAfterMember([acc EXCEPT !.c = Head(t).c, !.m = Head(t).m,
                                      !.s = Head(t).s], Tail(t))
    ELSE IF Head(t) \in {ERRKEY, XKEY}
    THEN LET r == ParseValue(Tail(t))
         IN  IF ~r.ok THEN ParseFail
             ELSE IF Head(t) = ERRKEY
             THEN ParseAfterMember([acc EXCEPT !.err = <<r.val>>], r.rest)
             ELSE ParseAfterMember(acc, r.rest)
    ELSE ParseFail

ParseValue(t) ==
    IF t = <<>> THEN ParseFail
    ELSE IF Head(t) = LIT THEN ParseOk(LitVal, Tail(t))
    ELSE IF Head(t) = LB
    THEN IF Len(t) >= 2 /\ t[2] = RB
         THEN ParseOk(EmptyObj, SubSeq(t, 3, Len(t)))
         ELSE ParseMembers(Tail(t), EmptyObj)
    ELSE ParseFail

\* JSON.parse: ok = FALSE stands for the SyntaxError it throws.
JSONparse(t) ==
    LET r == ParseValue(t)
    IN  IF r.ok /\ r.rest = <<>> THEN [ok |-> TRUE, val |-> r.val]
        ELSE [ok |-> FALSE, val |-> LitVal]

\* ------------------------------------------------------------ values
Undefined == <<>>
Some(x) == <<x>>

\* AuthType and UserTierId members compared by errorParsing.ts.
LOGIN_WITH_GOOGLE == "oauth-personal"
USE_GEMINI == "gemini-api-key"
USE_VERTEX_AI == "vertex-ai"
CLOUD_SHELL == "cloud-shell"
TIER_FREE == "free-tier"
TIER_LEGACY == "legacy-tier"
TIER_STANDARD == "standard-tier"

DEFAULT_GEMINI_MODEL == "gemini-2.5-pro"
DEFAULT_GEMINI_FLASH_MODEL == "gemini-2.5-flash"

AI_STUDIO_API_KEY_URL == "https://aistudio.google.com/apikey"
GEMINI_CODE_ASSIST_UPGRADE_URL == "https://goo.gle/set-up-gemini-code-assist"
APPRECIATION_NOTE == "We appreciate you for choosing Gemini Code Assist and the Gemini CLI."
DEFAULT_FALLBACK_PREFIX == "Possible quota limitations in place or slow response times detected."
RATE_LIMIT_ERROR_MESSAGE_USE_GEMINI == "Please wait and try again later. To increase your limits, request a quota increase through AI Studio, or switch to another /auth method"
RATE_LIMIT_ERROR_MESSAGE_VERTEX == "Please wait and try again later. To increase your limits, request a quota increase through Vertex, or switch to another /auth method"

ParsedErrorType == {"PRO_QUOTA", "GENERIC_QUOTA", "RATE_LIMIT", "AUTH", "GENERIC"}

\* A number as a JavaScript value (typeof v = "number").
Num(n) == [ty |-> "number", v |-> n]

\* ------------------------------------------------------------ quotaErrorDetection
\* typeof error = 'object', error is not null, error.message is a string.
isStructuredError(e) ==
    e.ty = "object" /\ e.message # Undefined /\ e.message[1].ty = "string"

\* An object whose member error is an object with a number code, a string
\* message and a string status.
isApiError(v) ==
    /\ v.t = "obj"
    /\ v.err # <<>>
    /\ v.err[1].t = "obj"
    /\ v.err[1].c # <<>>
    /\ v.err[1].m # <<>>
    /\ v.err[1].s # <<>>

\* What a quota detector reads of its argument: the message text and, for a
\* parsed API payload, the API status string.
StructuredTarget(e) == [message |-> e.message[1].v, status |-> Undefined]
ApiTarget(v) == [message |-> v.err[1].m[1], status |-> v.err[1].s]

\* The API error that is JSON-encoded in a message text, one level down.
TargetOfParsed(r) == IF r.ok /\ isApiError(r.val) THEN <<ApiTarget(r.val)>> ELSE <<>>

NestedTarget(message) == TargetOfParsed(JSONparse(message))

isProQuotaExceededError(target) ==
    \/ Includes(target.message, QPRO)
    \/ \E n \in {NestedTarget(target.message)} :
          n # <<>> /\ Includes(n[1].message, QPRO)

isGenericQuotaExceededError(target) ==
    \/ target.status = Some("RESOURCE_EXHAUSTED")
    \/ Includes(target.message, QGEN)
    \/ \E n \in {NestedTarget(target.message)} :
          n # <<>> /\ (n[1].status = Some("RESOURCE_EXHAUSTED")
                       \/ Includes(n[1].message, QGEN))

\* ------------------------------------------------------------ errorParsing
\* Mutant: only the standard tier counts as paid.
isPaidUserTier_standardOnly(userTier) == userTier = Some(TIER_STANDARD)

isPaidUserTier(userTier) ==
    userTier = Some(TIER_LEGACY) \/ userTier = Some(TIER_STANDARD)

IsQuotaType(type) == type = "PRO_QUOTA" \/ type = "GENERIC_QUOTA"

\* Mutant: the free tier gets the upgrade suggestion for every kind.
formatGoogleLoginRateLimitMessage_upgradeForAll(quotaType, isPaidTier, currentModel, fallbackModel) ==
    LET cur == IF currentModel = Undefined THEN DEFAULT_GEMINI_MODEL ELSE currentModel[1]
        fb == IF fallbackModel = Undefined THEN DEFAULT_GEMINI_FLASH_MODEL ELSE fallbackModel[1]
        base ==
            CASE quotaType = "PRO_QUOTA" ->
                   <<Tok("You have reached your daily "), Tok(cur),
                     Tok(" quota limit. You will be switched to the "), Tok(fb),
                     Tok(" model for the rest of this session.")>>
              [] quotaType = "GENERIC_QUOTA" ->
                   <<Tok("You have reached your daily quota limit.")>>
              [] OTHER ->
                   <<Tok(DEFAULT_FALLBACK_PREFIX), Tok(" Switching to the "), Tok(fb),
                     Tok(" model for the rest of this session.")>>
        paid ==
            <<Tok(" "), Tok(APPRECIATION_NOTE)>> \o
            (IF IsQuotaType(quotaType)
             THEN <<Tok(" To continue accessing the "), Tok(cur),
                    Tok(" model today, consider using /auth to switch to using a paid API key from AI Studio at "),
                    Tok(AI_STUDIO_API_KEY_URL)>>
             ELSE <<>>)
        free ==
            <<Tok(" To increase your limits, upgrade to get higher limits at "),
              Tok(GEMINI_CODE_ASSIST_UPGRADE_URL),
              Tok(", or use /auth to switch to using a paid API key from AI Studio at "),
              Tok(AI_STUDIO_API_KEY_URL)>>
    IN  base \o (IF isPaidTier THEN paid ELSE free)

\* Mutant: the base message of a plain rate limit names the current model.
formatGoogleLoginRateLimitMessage_currentInRateLimit(quotaType, isPaidTier, currentModel, fallbackModel) ==
    LET cur == IF currentModel = Undefined THEN DEFAULT_GEMINI_MODEL ELSE currentModel[1]
        fb == IF fallbackModel = Undefined THEN DEFAULT_GEMINI_FLASH_MODEL ELSE fallbackModel[1]
        base ==
            CASE quotaType = "PRO_QUOTA" ->
                   <<Tok("You have reached your daily "), Tok(cur),
                     Tok(" quota limit. You will be switched to the "), Tok(fb),
                     Tok(" model for the rest of this session.")>>
              [] quotaType = "GENERIC_QUOTA" ->
                   <<Tok("You have reached your daily quota limit.")>>
              [] OTHER ->
                   <<Tok(DEFAULT_FALLBACK_PREFIX), Tok(" Switching to the "), Tok(cur),
                     Tok(" model for the rest of this session.")>>
        paid ==
            <<Tok(" "), Tok(APPRECIATION_NOTE)>> \o
            (IF IsQuotaType(quotaType)
             THEN <<Tok(" To continue accessing the "), Tok(cur),
                    Tok(" model today, consider using /auth to switch to using a paid API key from AI Studio at "),
                    Tok(AI_STUDIO_API_KEY_URL)>>
             ELSE <<>>)
        free ==
            IF IsQuotaType(quotaType)
            THEN <<Tok(" To increase your limits, upgrade to get higher limits at "),
                   Tok(GEMINI_CODE_ASSIST_UPGRADE_URL),
                   Tok(", or use /auth to switch to using a paid API key from AI Studio at "),
                   Tok(AI_STUDIO_API_KEY_URL)>>
            ELSE <<>>
    IN  base \o (IF isPaidTier THEN paid ELSE free)

formatGoogleLoginRateLimitMessage(quotaType, isPaidTier, currentModel, fallbackModel) ==
    LET cur == IF currentModel = Undefined THEN DEFAULT_GEMINI_MODEL ELSE currentModel[1]
        fb == IF fallbackModel = Undefined THEN DEFAULT_GEMINI_FLASH_MODEL ELSE fallbackModel[1]
        base ==
            CASE quotaType = "PRO_QUOTA" ->
                   <<Tok("You have reached your daily "), Tok(cur),
                     Tok(" quota limit. You will be switched to the "), Tok(fb),
                     Tok(" model for the rest of this session.")>>
              [] quotaType = "GENERIC_QUOTA" ->
                   <<Tok("You have reached your daily quota limit.")>>
              [] OTHER ->
                   <<Tok(DEFAULT_FALLBACK_PREFIX), Tok(" Switching to the "), Tok(fb),
                     Tok(" model for the rest of this session.")>>
        paid ==
            <<Tok(" "), Tok(APPRECIATION_NOTE)>> \o
            (IF IsQuotaType(quotaType)
             THEN <<Tok(" To continue accessing the "), Tok(cur),
                    Tok(" model today, consider using /auth to switch to using a paid API key from AI Studio at "),
                    Tok(AI_STUDIO_API_KEY_URL)>>
             ELSE <<>>)
        free ==
            IF IsQuotaType(quotaType)
            THEN <<Tok(" To increase your limits, upgrade to get higher limits at "),
                   Tok(GEMINI_CODE_ASSIST_UPGRADE_URL),
                   Tok(", or use /auth to switch to using a paid API key from AI Studio at "),
                   Tok(AI_STUDIO_API_KEY_URL)>>
            ELSE <<>>
    IN  base \o (IF isPaidTier THEN paid ELSE free)

\* Mutant: the generic-quota detector is asked before the pro-quota detector.
classifyParsedErrorTypeFor429_genericFirst(target) ==
    IF isGenericQuotaExceededError(target) THEN "GENERIC_QUOTA"
    ELSE IF isProQuotaExceededError(target) THEN "PRO_QUOTA"
    ELSE "RATE_LIMIT"

classifyParsedErrorTypeFor429(target) ==
    IF isProQuotaExceededError(target) THEN "PRO_QUOTA"
    ELSE IF isGenericQuotaExceededError(target) THEN "GENERIC_QUOTA"
    ELSE "RATE_LIMIT"

\* Mutant: x ?? d, the empty string is kept.
OrDefault_nullish(x, d) == IF x = Undefined THEN d ELSE x[1]

\* x || d for a string x: undefined and the empty string give d.
OrDefault(x, d) == IF x = Undefined \/ x = Some("") THEN d ELSE x[1]

\* Mutant: the default case shares the body of the Google login case.
getRateLimitMessage_defaultAsGoogleLogin(authType, target, userTier, currentModel, fallbackModel) ==
    LET sanitizedCurrent == OrDefault(currentModel, DEFAULT_GEMINI_MODEL)
        sanitizedFallback == OrDefault(fallbackModel, DEFAULT_GEMINI_FLASH_MODEL)
    IN  CASE authType = Some(USE_GEMINI) ->
               <<Tok("\n"), Tok(RATE_LIMIT_ERROR_MESSAGE_USE_GEMINI)>>
          [] authType = Some(USE_VERTEX_AI) ->
               <<Tok("\n"), Tok(RATE_LIMIT_ERROR_MESSAGE_VERTEX)>>
          [] OTHER ->
               <<Tok("\n")>> \o
               formatGoogleLoginRateLimitMessage(
                   classifyParsedErrorTypeFor429(target), isPaidUserTier(userTier),
                   Some(sanitizedCurrent), Some(sanitizedFallback))

\* Mutant: the Google login message is built without classifying the error.
getRateLimitMessage_unclassified(authType, target, userTier, currentModel, fallbackModel) ==
    LET sanitizedCurrent == OrDefault(currentModel, DEFAULT_GEMINI_MODEL)
        sanitizedFallback == OrDefault(fallbackModel, DEFAULT_GEMINI_FLASH_MODEL)
    IN  CASE authType = Some(LOGIN_WITH_GOOGLE) ->
               <<Tok("\n")>> \o
               formatGoogleLoginRateLimitMessage(
                   "RATE_LIMIT", isPaidUserTier(userTier),
                   Some(sanitizedCurrent), Some(sanitizedFallback))
          [] authType = Some(USE_GEMINI) ->
               <<Tok("\n"), Tok(RATE_LIMIT_ERROR_MESSAGE_USE_GEMINI)>>
          [] authType = Some(USE_VERTEX_AI) ->
               <<Tok("\n"), Tok(RATE_LIMIT_ERROR_MESSAGE_VERTEX)>>
          [] OTHER ->
               <<Tok("\n"), Tok(DEFAULT_FALLBACK_PREFIX), Tok(" Switching to the "),
                 Tok(sanitizedFallback), Tok(" model for the rest of this session.")>>

getRateLimitMessage(authType, target, userTier, currentModel, fallbackModel) ==
    LET sanitizedCurrent == OrDefault(currentModel, DEFAULT_GEMINI_MODEL)
        sanitizedFallback == OrDefault(fallbackModel, DEFAULT_GEMINI_FLASH_MODEL)
    IN  CASE authType = Some(LOGIN_WITH_GOOGLE) ->
               <<Tok("\n")>> \o
               formatGoogleLoginRateLimitMessage(
                   classifyParsedErrorTypeFor429(target), isPaidUserTier(userTier),
                   Some(sanitizedCurrent), Some(sanitizedFallback))
          [] authType = Some(USE_GEMINI) ->
               <<Tok("\n"), Tok(RATE_LIMIT_ERROR_MESSAGE_USE_GEMINI)>>
          [] authType = Some(USE_VERTEX_AI) ->
               <<Tok("\n"), Tok(RATE_LIMIT_ERROR_MESSAGE_VERTEX)>>
          [] OTHER ->
               <<Tok("\n"), Tok(DEFAULT_FALLBACK_PREFIX), Tok(" Switching to the "),
                 Tok(sanitizedFallback), Tok(" model for the rest of this session.")>>

\* Mutant: RATE_LIMIT falls into the case group of the quota kinds.
titleForType_rateLimitAsQuota(type) ==
    CASE type = "PRO_QUOTA" -> "Quota Exceeded"
      [] type = "GENERIC_QUOTA" -> "Quota Exceeded"
      [] type = "RATE_LIMIT" -> "Quota Exceeded"
      [] type = "AUTH" -> "Authentication Error"
      [] OTHER -> "API Error"

titleForType(type) ==
    CASE type = "PRO_QUOTA" -> "Quota Exceeded"
      [] type = "GENERIC_QUOTA" -> "Quota Exceeded"
      [] type = "RATE_LIMIT" -> "Rate Limit Exceeded"
      [] type = "AUTH" -> "Authentication Error"
      [] OTHER -> "API Error"

\* Mutant: the title is written into the message, as in a single composed
\* message string.
buildParsedError_titledMessage(base, type, customMessage) ==
    [threw |-> FALSE,
     type |-> type,
     title |-> titleForType(type),
     customMessage |-> customMessage,
     errorMessage |-> <<Tok(titleForType(type)), Tok(": ")>> \o base.message,
     rawError |-> base.rawError,
     httpStatus |-> base.httpStatus,
     apiStatus |-> base.apiStatus,
     apiCode |-> base.apiCode,
     origin |-> base.origin]

buildParsedError(base, type, customMessage) ==
    [threw |-> FALSE,
     type |-> type,
     title |-> titleForType(type),
     customMessage |-> customMessage,
     errorMessage |-> base.message,
     rawError |-> base.rawError,
     httpStatus |-> base.httpStatus,
     apiStatus |-> base.apiStatus,
     apiCode |-> base.apiCode,
     origin |-> base.origin]

\* An exception that escapes the call instead of a ParsedError.
Thrown(rawError) ==
    [threw |-> TRUE, type |-> "none", title |-> "none", customMessage |-> Undefined,
     errorMessage |-> <<>>, rawError |-> rawError, httpStatus |-> Undefined,
     apiStatus |-> Undefined, apiCode |-> Undefined, origin |-> "none"]

\* Mutant: the structured message is unwrapped like a JSON payload's message.
normalizeStructuredError_unwrap(e) ==
    LET nested == NestedTarget(e.message[1].v)
    IN  [message |-> IF nested # <<>> THEN nested[1].message ELSE e.message[1].v,
         httpStatus |-> e.status,
         apiStatus |-> Undefined,
         apiCode |-> Undefined,
         origin |-> "structured",
         rawError |-> e]

normalizeStructuredError(e) ==
    [message |-> e.message[1].v,
     httpStatus |-> e.status,
     apiStatus |-> Undefined,
     apiCode |-> Undefined,
     origin |-> "structured",
     rawError |-> e]

\* The try block of unwrapNestedApiMessage, given what JSON.parse(message) gave.
NestedMessageOr(nested, message) ==
    IF nested.ok /\ isApiError(nested.val)
    THEN nested.val.err[1].m[1]
    ELSE message

\* One more pass of the same unwrapping over an already unwrapped message.
UnwrapAgain(unwrapped) == NestedMessageOr(JSONparse(unwrapped), unwrapped)

\* Mutant: the unwrapping is repeated on its own result, two levels deep.
unwrapNestedApiMessage_twoLevels(message) ==
    UnwrapAgain(NestedMessageOr(JSONparse(message), message))

unwrapNestedApiMessage(message) == NestedMessageOr(JSONparse(message), message)

\* Mutant: code and status are read from the nested payload when there is one.
normalizeApiJsonError_nestedStatus(apiErr, rawError) ==
    LET nested == NestedTarget(apiErr.err[1].m[1])
    IN  [message |-> unwrapNestedApiMessage(apiErr.err[1].m[1]),
         httpStatus |-> Undefined,
         apiStatus |-> IF nested # <<>> THEN nested[1].status ELSE apiErr.err[1].s,
         apiCode |-> apiErr.err[1].c,
         origin |-> "json",
         rawError |-> rawError]

\* Mutant: the code of the payload is also stored as httpStatus.
normalizeApiJsonError_httpStatus(apiErr, rawError) ==
    [message |-> unwrapNestedApiMessage(apiErr.err[1].m[1]),
     httpStatus |-> Some(Num(apiErr.err[1].c[1])),
     apiStatus |-> apiErr.err[1].s,
     apiCode |-> apiErr.err[1].c,
     origin |-> "json",
     rawError |-> rawError]

\* Mutant: rawError is the message of the extracted payload, not the input.
normalizeApiJsonError_messageAsRaw(apiErr, rawError) ==
    [message |-> unwrapNestedApiMessage(apiErr.err[1].m[1]),
     httpStatus |-> Undefined,
     apiStatus |-> apiErr.err[1].s,
     apiCode |-> apiErr.err[1].c,
     origin |-> "json",
     rawError |-> [rawError EXCEPT !.str = apiErr.err[1].m[1]]]

normalizeApiJsonError(apiErr, rawError) ==
    [message |-> unwrapNestedApiMessage(apiErr.err[1].m[1]),
     httpStatus |-> Undefined,
     apiStatus |-> apiErr.err[1].s,
     apiCode |-> apiErr.err[1].c,
     origin |-> "json",
     rawError |-> rawError]

\* null is found = FALSE; threw is an exception that escapes the function.
NoApiError == [threw |-> FALSE, found |-> FALSE, apiError |-> LitVal]

\* Mutant: no anchor on the marker, the candidate starts at the first brace.
StartOf_firstBrace(str) == IndexOfTok(str, LB)

\* const start = anchor >= 0 ? anchor : text.indexOf('{')
StartOf(str) ==
    LET anchor == IndexOfMarker(str)
    IN  IF anchor >= 1 THEN anchor ELSE IndexOfTok(str, LB)

\* The candidate substring, from start to the last closing brace.
CandidateOf(str, start, lastClose) ==
    IF lastClose > start
    THEN SubSeq(str, start, lastClose)
    ELSE SubSeq(str, start, Len(str))

\* The try block of extractApiErrorFromString, given what JSON.parse gave.
ApiErrorOrNull(p) ==
    IF p.ok /\ isApiError(p.val)
    THEN [threw |-> FALSE, found |-> TRUE, apiError |-> p.val]
    ELSE NoApiError

ExtractFrom(str, start) ==
    IF start = 0 THEN NoApiError
    ELSE ApiErrorOrNull(JSONparse(CandidateOf(str, start, LastIndexOfTok(str, RB))))

\* The same without the catch: a SyntaxError escapes.
ApiErrorOrThrow(p) ==
    IF ~p.ok THEN [threw |-> TRUE, found |-> FALSE, apiError |-> LitVal]
    ELSE ApiErrorOrNull(p)

ExtractFromNoCatch(str, start) ==
    IF start = 0 THEN NoApiError
    ELSE ApiErrorOrThrow(JSONparse(CandidateOf(str, start, LastIndexOfTok(str, RB))))

\* Mutant: JSON.parse is called outside the try block.
extractApiErrorFromString_noCatch(str) == ExtractFromNoCatch(str, StartOf(str))

extractApiErrorFromString(str) == ExtractFrom(str, StartOf(str))

parse401(base) == buildParsedError(base, "AUTH", Undefined)
parse403(base) == buildParsedError(base, "AUTH", Undefined)

\* Mutant: the synthesized message is not passed on to buildParsedError.
parse429_noCustomMessage(base, target, c) ==
    buildParsedError(base, classifyParsedErrorTypeFor429(target), Undefined)

\* Mutant: the leading newline is left in the message.
WithoutLeadingNewline_kept(rateLimitMessage) == rateLimitMessage

\* rateLimitMessage.startsWith('\n') ? rateLimitMessage.slice(1) : rateLimitMessage
WithoutLeadingNewline(rateLimitMessage) ==
    IF rateLimitMessage # <<>> /\ Head(rateLimitMessage) = Tok("\n")
    THEN Tail(rateLimitMessage)
    ELSE rateLimitMessage

parse429(base, target, c) ==
    buildParsedError(
        base,
        classifyParsedErrorTypeFor429(target),
        Some(WithoutLeadingNewline(
                 getRateLimitMessage(c.authType, target, c.userTier,
                                     c.currentModel, c.fallbackModel))))

parse500(base) == buildParsedError(base, "GENERIC", Undefined)
parse502(base) == buildParsedError(base, "GENERIC", Undefined)
parse503(base) == buildParsedError(base, "GENERIC", Undefined)
parseDefault(base) == buildParsedError(base, "GENERIC", Undefined)

\* normalized.httpStatus ?? normalized.apiCode
StatusOf(normalized) ==
    IF normalized.httpStatus # Undefined THEN normalized.httpStatus
    ELSE IF normalized.apiCode # Undefined THEN Some(Num(normalized.apiCode[1]))
    ELSE Undefined

\* Mutant: the case for 403 is missing.
dispatchByStatus_no403(normalized, target, c) ==
    LET status == StatusOf(normalized)
    IN  CASE status = Some(Num(401)) -> parse401(normalized)
          [] status = Some(Num(429)) -> parse429(normalized, target, c)
          [] OTHER -> parseDefault(normalized)

\* Mutant: the case for 503 falls through to the rate-limit parser.
dispatchByStatus_503asRateLimit(normalized, target, c) ==
    LET status == StatusOf(normalized)
    IN  CASE status = Some(Num(401)) -> parse401(normalized)
          [] status = Some(Num(403)) -> parse403(normalized)
          [] status = Some(Num(429)) -> parse429(normalized, target, c)
          [] status = Some(Num(503)) -> parse429(normalized, target, c)
          [] OTHER -> parseDefault(normalized)

dispatchByStatus(normalized, target, c) ==
    LET status == StatusOf(normalized)
    IN  CASE status = Some(Num(401)) -> parse401(normalized)
          [] status = Some(Num(403)) -> parse403(normalized)
          [] status = Some(Num(429)) -> parse429(normalized, target, c)
          [] status = Some(Num(500)) -> parse500(normalized)
          [] status = Some(Num(502)) -> parse502(normalized)
          [] status = Some(Num(503)) -> parse503(normalized)
          [] OTHER -> parseDefault(normalized)

\* Mutant: the normalized record's status, not the error, is handed to the
\* quota detectors.
parseStructured_wrongTarget(e, c) ==
    LET normalized == normalizeStructuredError(e)
    IN  IF e.status # Undefined /\ e.status[1].ty = "number"
        THEN dispatchByStatus(normalized, [message |-> <<>>, status |-> Undefined], c)
        ELSE parseDefault(normalized)

parseStructured(e, c) ==
    LET normalized == normalizeStructuredError(e)
    IN  IF e.status # Undefined /\ e.status[1].ty = "number"
        THEN dispatchByStatus(normalized, StructuredTarget(e), c)
        ELSE parseDefault(normalized)

\* Mutant: the text before the first opening brace is dropped from the message.
TextInput_fromFirstBrace(errorText, rawError) ==
    [message |-> IF IndexOfTok(errorText, LB) > 0
                 THEN SubSeq(errorText, IndexOfTok(errorText, LB), Len(errorText))
                 ELSE errorText,
     httpStatus |-> Undefined, apiStatus |-> Undefined,
     apiCode |-> Undefined, origin |-> "text", rawError |-> rawError]

TextInput(errorText, rawError) ==
    [message |-> errorText, httpStatus |-> Undefined, apiStatus |-> Undefined,
     apiCode |-> Undefined, origin |-> "text", rawError |-> rawError]

\* The body of parseStringError after the call of extractApiErrorFromString.
ParseExtracted(e, c, extracted) ==
    IF extracted.threw THEN Thrown(e)
    ELSE IF extracted.found
    THEN dispatchByStatus(normalizeApiJsonError(extracted.apiError, e),
                          ApiTarget(extracted.apiError), c)
    ELSE buildParsedError(TextInput(e.str, e), "GENERIC", Undefined)

parseStringError(e, c) == ParseExtracted(e, c, extractApiErrorFromString(e.str))

UnknownInput(rawError) ==
    [message |-> <<Tok("An unknown error occurred.")>>, httpStatus |-> Undefined,
     apiStatus |-> Undefined, apiCode |-> Undefined, origin |-> "unknown",
     rawError |-> rawError]

\* Mutant: an object with a numeric status is dispatched by it even when it
\* has no string message.
parseError_statusOfAnyObject(e, authType, userTier, currentModel, fallbackModel) ==
    LET c == [authType |-> authType, userTier |-> userTier,
              currentModel |-> currentModel, fallbackModel |-> fallbackModel]
    IN  IF isStructuredError(e) THEN parseStructured(e, c)
        ELSE IF e.ty = "string" THEN parseStringError(e, c)
        ELSE IF e.ty = "object" /\ e.status # Undefined /\ e.status[1].ty = "number"
        THEN dispatchByStatus([UnknownInput(e) EXCEPT !.httpStatus = e.status],
                              [message |-> <<>>, status |-> Undefined], c)
        ELSE buildParsedError(UnknownInput(e), "GENERIC", Undefined)

parseError(e, authType, userTier, currentModel, fallbackModel) ==
    LET c == [authType |-> authType, userTier |-> userTier,
              currentModel |-> currentModel, fallbackModel |-> fallbackModel]
    IN  IF isStructuredError(e) THEN parseStructured(e, c)
        ELSE IF e.ty = "string" THEN parseStringError(e, c)
        ELSE buildParsedError(UnknownInput(e), "GENERIC", Undefined)

\* (Status: ...) only for API JSON errors.
StatusSuffix(p) ==
    IF p.origin = "json"
    THEN <<Tok(" (Status: "),
           Tok(IF p.apiStatus = Undefined THEN "undefined" ELSE p.apiStatus[1]),
           Tok(")")>>
    ELSE <<>>

\* The rate limit advice, after a newline, for 429 errors with a custom message.
Advice(p) ==
    IF /\ p.customMessage # Undefined
       /\ p.customMessage[1] # <<>>
       /\ p.type \in {"PRO_QUOTA", "GENERIC_QUOTA", "RATE_LIMIT"}
    THEN <<Tok("\n")>> \o p.customMessage[1]
    ELSE <<>>

\* The body of parseAndFormatApiError after the call of parseError; threw when
\* parseError threw.
FormatParsed(p) ==
    IF p.threw THEN [threw |-> TRUE, str |-> <<>>]
    ELSE [threw |-> FALSE,
          str |-> <<Tok("["), Tok("API Error"), Tok(": ")>> \o p.errorMessage
                  \o StatusSuffix(p) \o <<Tok("]")>> \o Advice(p)]

\* The same with the title of the classified kind as the prefix.
FormatParsedWithTitle(p) ==
    IF p.threw THEN [threw |-> TRUE, str |-> <<>>]
    ELSE [threw |-> FALSE,
          str |-> <<Tok("["), Tok(p.title), Tok(": ")>> \o p.errorMessage
                  \o StatusSuffix(p) \o <<Tok("]")>> \o Advice(p)]

\* Mutant: the prefix carries the title of the classified kind.
parseAndFormatApiError_titlePrefix(e, authType, userTier, currentModel, fallbackModel) ==
    FormatParsedWithTitle(parseError(e, authType, userTier, currentModel, fallbackModel))

\* The legacy single-line string.
parseAndFormatApiError(e, authType, userTier, currentModel, fallbackModel) ==
    FormatParsed(parseError(e, authType, userTier, currentModel, fallbackModel))

\* ------------------------------------------- the previous implementation
\* classifyQuota of the previous revision, with the kinds named as the
\* current ParsedErrorType names them (PRO, GENERIC, NONE).
classifyQuota(target) ==
    IF isProQuotaExceededError(target) THEN "PRO_QUOTA"
    ELSE IF isGenericQuotaExceededError(target) THEN "GENERIC_QUOTA"
    ELSE "RATE_LIMIT"

\* getRateLimitMessage of the previous revision; its message builder has the
\* same text as the current formatGoogleLoginRateLimitMessage.
previousGetRateLimitMessage(authType, target, userTier, currentModel, fallbackModel) ==
    LET sanitizedCurrent == OrDefault(currentModel, DEFAULT_GEMINI_MODEL)
        sanitizedFallback == OrDefault(fallbackModel, DEFAULT_GEMINI_FLASH_MODEL)
    IN  CASE authType = Some(LOGIN_WITH_GOOGLE) ->
               <<Tok("\n")>> \o
               formatGoogleLoginRateLimitMessage(
                   classifyQuota(target), isPaidUserTier(userTier),
                   Some(sanitizedCurrent), Some(sanitizedFallback))
          [] authType = Some(USE_GEMINI) ->
               <<Tok("\n"), Tok(RATE_LIMIT_ERROR_MESSAGE_USE_GEMINI)>>
          [] authType = Some(USE_VERTEX_AI) ->
               <<Tok("\n"), Tok(RATE_LIMIT_ERROR_MESSAGE_VERTEX)>>
          [] OTHER ->
               <<Tok("\n"), Tok(DEFAULT_FALLBACK_PREFIX), Tok(" Switching to the "),
                 Tok(sanitizedFallback), Tok(" model for the rest of this session.")>>

\* error.substring(error.indexOf('{')), for a string that holds a brace.
PreviousJsonString(str) == SubSeq(str, IndexOfTok(str, LB), Len(str))

\* `[API Error: ${error}]`
PreviousAsIs(str) == <<Tok("["), Tok("API Error"), Tok(": ")>> \o str \o <<Tok("]")>>

\* The branch of the previous parseAndFormatApiError for a parsed API error.
PreviousFormatApiError(parsedError, c) ==
    <<Tok("["), Tok("API Error"), Tok(": ")>>
    \o NestedMessageOr(JSONparse(parsedError.err[1].m[1]), parsedError.err[1].m[1])
    \o <<Tok(" (Status: "),
          Tok(IF parsedError.err[1].s = Undefined THEN "undefined" ELSE parsedError.err[1].s[1]),
          Tok(")"), Tok("]")>>
    \o (IF parsedError.err[1].c = Some(429)
        THEN previousGetRateLimitMessage(c.authType, ApiTarget(parsedError), c.userTier,
                                         c.currentModel, c.fallbackModel)
        ELSE <<>>)

\* The string branch, given what JSON.parse(jsonString) gave.
PreviousFormatString(str, p, c) ==
    IF p.ok /\ isApiError(p.val)
    THEN PreviousFormatApiError(p.val, c)
    ELSE PreviousAsIs(str)

\* parseAndFormatApiError of the previous revision.
previousParseAndFormatApiError(e, authType, userTier, currentModel, fallbackModel) ==
    LET c == [authType |-> authType, userTier |-> userTier,
              currentModel |-> currentModel, fallbackModel |-> fallbackModel]
    IN  IF isStructuredError(e)
        THEN PreviousAsIs(e.message[1].v)
             \o (IF e.status = Some(Num(429))
                 THEN previousGetRateLimitMessage(authType, StructuredTarget(e), userTier,
                                                  currentModel, fallbackModel)
                 ELSE <<>>)
        ELSE IF e.ty = "string"
        THEN IF IndexOfTok(e.str, LB) = 0
             THEN PreviousAsIs(e.str)
             ELSE PreviousFormatString(e.str, JSONparse(PreviousJsonString(e.str)), c)
        ELSE PreviousAsIs(<<Tok("An unknown error occurred.")>>)

\* ------------------------------------------------ InformationDialog: JSON
\* Further tokens of the text of an information message.
TYPEKEY == Tok("\"type\":")
DATAKEY == Tok("\"data\":")
\* The JSON strings "api_error" and "notice", and the JSON number 7.
API_ERROR == Tok("\"api_error\"")
NOTICE == Tok("\"notice\"")
NUMLIT == Tok("7")
\* The full stop that ends a sentence of a message.
DOT == Tok(".")
\* The member "message":7, a message that is no string.
NUMMSG == Tok("\"message\":7")
\* The member "status":n with a number n.
StatusTok(n) == [k |-> "status", c |-> <<n>>, m |-> <<>>, s |-> <<>>]
\* The member "details":[...]; of each detail the model keeps its @type, and
\* of one violation the quotaValue and the quotaDimensions.model, of one link
\* the url.
DetailsTok(entries) == [k |-> "details", c |-> <<>>, m |-> entries, s |-> <<>>]
QuotaFailure(quotaValue, model) == [k |-> "QuotaFailure", c |-> quotaValue, m |-> model, s |-> <<>>]
Help(url) == [k |-> "Help", c |-> <<>>, m |-> <<>>, s |-> url]
OtherDetail == [k |-> "Other", c |-> <<>>, m |-> <<>>, s |-> <<>>]

\* JavaScript values that a ProcessedMessage can hold as its content.
StrV(v) == [ty |-> "string", v |-> v]
UndefinedV == [ty |-> "undefined", v |-> <<>>]

\* A parsed value as processors.ts reads it: null, a primitive (lit is its
\* token) or an object with the members type, data, error, code, message,
\* status and details (<<>> when absent); src is the text it was parsed from.
MsgNull ==
    [t |-> "null", lit |-> <<>>, type |-> <<>>, data |-> <<>>, error |-> <<>>,
     code |-> <<>>, message |-> <<>>, status |-> <<>>, details |-> <<>>, src |-> <<>>]
MsgPrim(tok) == [MsgNull EXCEPT !.t = "prim", !.lit = <<tok>>]
MsgObj == [MsgNull EXCEPT !.t = "obj"]

MsgFail == [ok |-> FALSE, val |-> MsgNull, rest |-> <<>>]
MsgOk(v, rest) == [ok |-> TRUE, val |-> v, rest |-> rest]

\* The value with the text it was read from: t without what is left of it.
MsgRead(r, t) ==
    IF r.ok
    THEN MsgOk([r.val EXCEPT !.src = SubSeq(t, 1, Len(t) - Len(r.rest))], r.rest)
    ELSE MsgFail

RECURSIVE MsgParseValue(_)
RECURSIVE MsgParseMembers(_, _)

MsgAfterMember(acc, rest) ==
    IF rest = <<>> THEN MsgFail
    ELSE IF Head(rest) = RB THEN MsgOk(acc, Tail(rest))
    ELSE IF Head(rest) = COMMA THEN MsgParseMembers(Tail(rest), acc)
    ELSE MsgFail

\* A member with a value of its own, given the parsed value.
MsgKeyed(key, acc, r) ==
    IF ~r.ok THEN MsgFail
    ELSE IF key = TYPEKEY THEN MsgAfterMember([acc EXCEPT !.type = r.val.lit], r.rest)
    ELSE IF key = DATAKEY THEN MsgAfterMember([acc EXCEPT !.data = <<r.val>>], r.rest)
    ELSE IF key = ERRKEY THEN MsgAfterMember([acc EXCEPT !.error = <<r.val>>], r.rest)
    ELSE MsgAfterMember(acc, r.rest)

MsgParseMembers(t, acc) ==
    IF t = <<>> THEN MsgFail
    ELSE IF Head(t).k = "body"
    THEN MsgAfterMember(
             [acc EXCEPT !.code = Head(t).c,
                         !.message = IF Head(t).m = <<>> THEN <<>> ELSE <<StrV(Head(t).m[1])>>,
                         !.status = IF Head(t).s = <<>> THEN <<>> ELSE <<StrV(Head(t).s[1])>>],
             Tail(t))
    ELSE IF Head(t) = NUMMSG
    THEN MsgAfterMember([acc EXCEPT !.message = <<Num(7)>>], Tail(t))
    ELSE IF Head(t).k = "status"
    THEN MsgAfterMember([acc EXCEPT !.status = <<Num(Head(t).c[1])>>], Tail(t))
    ELSE IF Head(t).k = "details"
    THEN MsgAfterMember([acc EXCEPT !.details = <<Head(t).m>>], Tail(t))
    ELSE IF Head(t) \in {TYPEKEY, DATAKEY, ERRKEY, XKEY}
    THEN MsgKeyed(Head(t), acc, MsgParseValue(Tail(t)))
    ELSE MsgFail

MsgParseValue(t) ==
    IF t = <<>> THEN MsgFail
    ELSE IF Head(t) = LIT THEN MsgRead(MsgOk(MsgNull, Tail(t)), t)
    ELSE IF Head(t) \in {NUMLIT, API_ERROR, NOTICE}
    THEN MsgRead(MsgOk(MsgPrim(Head(t)), Tail(t)), t)
    ELSE IF Head(t) = LB
    THEN IF Len(t) >= 2 /\ t[2] = RB
         THEN MsgRead(MsgOk(MsgObj, SubSeq(t, 3, Len(t))), t)
         ELSE MsgRead(MsgParseMembers(Tail(t), MsgObj), t)
    ELSE MsgFail

\* JSON.parse of processors.ts: ok = FALSE stands for the SyntaxError.
MsgJSONparse(t) ==
    IF MsgParseValue(t).ok /\ MsgParseValue(t).rest = <<>>
    THEN [ok |-> TRUE, val |-> MsgParseValue(t).val]
    ELSE [ok |-> FALSE, val |-> MsgNull]

\* The text of an object printed with two spaces of indentation.
PrettyTok(src) == [k |-> "pretty", c |-> <<>>, m |-> src, s |-> <<>>]

\* JSON.stringify(v, null, 2) of a parsed value or of undefined (<<>>): not a
\* string for undefined; the text itself for null, a primitive and {}, which
\* have no line breaks; the indented text for any other object.
JSONstringify(v) ==
    IF v = Undefined THEN UndefinedV
    ELSE IF v[1].t = "obj" /\ v[1].src # <<LB, RB>> THEN StrV(<<PrettyTok(v[1].src)>>)
    ELSE StrV(v[1].src)

\* ------------------------------------------------ InformationDialog: processors
\* e?.code, e?.status and e?.message of an optional value e.
CodeOf(e) == IF e # Undefined /\ e[1].t = "obj" THEN e[1].code ELSE Undefined
StatusOfError(e) == IF e # Undefined /\ e[1].t = "obj" THEN e[1].status ELSE Undefined
MessageOf(e) == IF e # Undefined /\ e[1].t = "obj" THEN e[1].message ELSE Undefined

\* m && typeof m === 'string'
TruthyString(m) == m # Undefined /\ m[1].ty = "string" /\ m[1].v # <<>>
\* A value of the model that is truthy: not undefined, not null, not ''.
Truthy(m) == m # Undefined /\ ~(m[1].ty = "string" /\ m[1].v = <<>>)
TruthyValue(e) == e # Undefined /\ e[1].t # "null"

\* The try block of the nested check, given what JSON.parse(message) gave;
\* nested.error of null throws and is caught like the SyntaxError.
NestedSubtype(nested) ==
    IF ~nested.ok \/ nested.val.t = "null" THEN "generic"
    ELSE IF \/ CodeOf(nested.val.error) = Some(429)
            \/ StatusOfError(nested.val.error) = Some(StrV("RESOURCE_EXHAUSTED"))
    THEN "quota_exceeded"
    ELSE IF CodeOf(nested.val.error) \in {Some(401), Some(403)} THEN "auth_failed"
    ELSE "generic"

\* Mutant: the nested error is looked at before the outer one.
detectApiErrorSubtype_nestedFirst(data) ==
    IF data = Undefined \/ data[1].t = "null" THEN "TypeError"
    ELSE IF /\ TruthyString(MessageOf(data[1].error))
            /\ NestedSubtype(MsgJSONparse(MessageOf(data[1].error)[1].v)) # "generic"
    THEN NestedSubtype(MsgJSONparse(MessageOf(data[1].error)[1].v))
    ELSE IF \/ CodeOf(data[1].error) = Some(429)
            \/ StatusOfError(data[1].error) = Some(StrV("Too Many Requests"))
    THEN "quota_exceeded"
    ELSE IF CodeOf(data[1].error) \in {Some(401), Some(403)} THEN "auth_failed"
    ELSE "generic"

\* "TypeError" stands for the exception of data.error on undefined or null.
detectApiErrorSubtype(data) ==
    IF data = Undefined \/ data[1].t = "null" THEN "TypeError"
    ELSE IF \/ CodeOf(data[1].error) = Some(429)
            \/ StatusOfError(data[1].error) = Some(StrV("Too Many Requests"))
    THEN "quota_exceeded"
    ELSE IF CodeOf(data[1].error) \in {Some(401), Some(403)} THEN "auth_failed"
    ELSE IF TruthyString(MessageOf(data[1].error))
    THEN NestedSubtype(MsgJSONparse(MessageOf(data[1].error)[1].v))
    ELSE "generic"

\* The try block of extractNestedErrorMessage, given what JSON.parse gave.
PrettyOrAsIs(nested, message) ==
    IF nested.ok THEN JSONstringify(<<nested.val>>) ELSE StrV(message)

extractNestedErrorMessage(data) ==
    IF TruthyString(MessageOf(data[1].error))
    THEN PrettyOrAsIs(MsgJSONparse(MessageOf(data[1].error)[1].v),
                      MessageOf(data[1].error)[1].v)
    ELSE IF Truthy(MessageOf(data[1].error)) THEN MessageOf(data[1].error)[1]
    ELSE JSONstringify(data)

RateLimitFallback == <<Tok("Rate limit exceeded. Please try again later.")>>

\* The lines pushed for one detail; "*" is written for the bullet character.
DetailLines(detail) ==
    IF detail.k = "QuotaFailure"
    THEN (IF detail.c # <<>> /\ detail.c[1] # ""
          THEN <<(<<Tok("* Daily limit: "), Tok(detail.c[1]), Tok(" requests")>>)>>
          ELSE <<>>)
         \o (IF detail.m # <<>> /\ detail.m[1] # ""
             THEN <<(<<Tok("* Model: "), Tok(detail.m[1])>>)>>
             ELSE <<>>)
    ELSE IF detail.k = "Help"
    THEN (IF detail.s # <<>> /\ detail.s[1] # ""
          THEN <<(<<Tok("* Learn more: "), Tok(detail.s[1])>>)>>
          ELSE <<>>)
    ELSE <<>>

RECURSIVE DetailsLines(_)
DetailsLines(details) ==
    IF details = <<>> THEN <<>>
    ELSE DetailLines(Head(details)) \o DetailsLines(Tail(details))

\* message.match(/^([^.]*\.)/): the first sentence and a blank line.
MainMessageLines(message) ==
    IF Includes(message, DOT)
    THEN <<SubSeq(message, 1, IndexOfTok(message, DOT)), <<>>>>
    ELSE <<>>

\* The lines for nestedError.error; match of a message that is no string
\* throws, and the catch pushes the fallback sentence.
ActualErrorLines(actualError) ==
    IF actualError.t # "obj" THEN <<>>
    ELSE IF Truthy(actualError.message) /\ ~TruthyString(actualError.message)
    THEN <<RateLimitFallback>>
    ELSE (IF TruthyString(actualError.message)
          THEN MainMessageLines(actualError.message[1].v)
          ELSE <<>>)
         \o (IF actualError.details # Undefined
             THEN DetailsLines(actualError.details[1])
             ELSE <<>>)

\* The lines, given what JSON.parse(error.message) gave.
NestedErrorLines(nestedError) ==
    IF ~nestedError.ok \/ nestedError.val.t = "null" THEN <<RateLimitFallback>>
    ELSE IF TruthyValue(nestedError.val.error)
    THEN ActualErrorLines(nestedError.val.error[1])
    ELSE <<>>

\* lines.join('\n')
RECURSIVE Join(_)
Join(lines) ==
    IF Len(lines) = 1 THEN Head(lines)
    ELSE Head(lines) \o <<Tok("\n")>> \o Join(Tail(lines))

LinesOrFallback(lines) == IF lines # <<>> THEN StrV(Join(lines)) ELSE StrV(RateLimitFallback)

\* const error = data.error || data
ErrorOrData(data) == IF TruthyValue(data[1].error) THEN data[1].error ELSE data

formatQuotaExceededError(data) ==
    IF TruthyString(MessageOf(ErrorOrData(data)))
    THEN LinesOrFallback(NestedErrorLines(MsgJSONparse(MessageOf(ErrorOrData(data))[1].v)))
    ELSE StrV(RateLimitFallback)

Processed(title, content) == [threw |-> FALSE, title |-> title, content |-> content]
ProcessThrew == [threw |-> TRUE, title |-> "none", content |-> UndefinedV]

processQuotaExceededError(data) == Processed("Rate Limit Exceeded", formatQuotaExceededError(data))
processAuthFailedError(data) == Processed("Authentication Error", extractNestedErrorMessage(data))
processGenericApiError(data) == Processed("API Error", extractNestedErrorMessage(data))

ProcessSubtype(errorSubtype, data) ==
    CASE errorSubtype = "TypeError" -> ProcessThrew
      [] errorSubtype = "quota_exceeded" -> processQuotaExceededError(data)
      [] errorSubtype = "auth_failed" -> processAuthFailedError(data)
      [] OTHER -> processGenericApiError(data)

processApiError(data) == ProcessSubtype(detectApiErrorSubtype(data), data)

\* The catch clause: whatever was thrown, the input is shown as it is.
CaughtOr(result, input) ==
    IF result.threw THEN Processed("Information", StrV(input)) ELSE result

\* The try block, given what JSON.parse(input) gave; message.type of null
\* throws, a primitive has neither type nor data.
ProcessParsed(p) ==
    IF ~p.ok \/ p.val.t = "null" THEN ProcessThrew
    ELSE IF p.val.type = <<API_ERROR>> THEN processApiError(p.val.data)
    ELSE Processed("Information", JSONstringify(p.val.data))

processInformationMessage(input) == CaughtOr(ProcessParsed(MsgJSONparse(input)), input)

\* ------------------------------------------------------------ inputs
\* A raw error value: typeof (with null and undefined as their own types), the
\* members message and status of an object, the characters of a string.
Raw(ty, message, status, str) == [ty |-> ty, message |-> message, status |-> status, str |-> str]

Structured(message, status) == Raw("object", Some([ty |-> "string", v |-> message]), status, <<>>)
Str(t) == Raw("string", Undefined, Undefined, t)

\* {"error":{ body }}
ApiJson(body) == <<LB, ERRKEY, LB, body, RB, RB>>
ApiBody(code, message, status) == BodyTok(Some(code), Some(message), Some(status))

Prose == SeqsUpTo(Words, MaxWords)

\* The API errors found JSON-encoded inside a message.
InnerPairs == {[c |-> 429, s |-> "RESOURCE_EXHAUSTED"], [c |-> 401, s |-> "UNAUTHENTICATED"]}

RECURSIVE Msgs(_)
Msgs(d) ==
    IF d = 0 THEN Prose
    ELSE Prose \cup {ApiJson(ApiBody(p.c, m, p.s)) : p \in InnerPairs, m \in Msgs(d - 1)}

HttpCodes == {401, 403, 429, 500, 502, 503, 404}

StatusValues ==
    {Undefined} \cup {Some(Num(n)) : n \in HttpCodes} \cup {Some([ty |-> "string", v |-> 429])}

StructuredInputs == {Structured(m, st) : m \in Msgs(MaxNest), st \in StatusValues}

UnknownInputs ==
    {Raw("null", Undefined, Undefined, <<>>),
     Raw("undefined", Undefined, Undefined, <<>>),
     Raw("number", Undefined, Undefined, <<>>),
     Raw("boolean", Undefined, Undefined, <<>>),
     Raw("object", Undefined, Undefined, <<>>),
     Raw("object", Undefined, Some(Num(429)), <<>>),
     Raw("object", Some([ty |-> "number", v |-> <<>>]), Some(Num(401)), <<>>)}

OuterPairs ==
    {[c |-> 401, s |-> "UNAUTHENTICATED"], [c |-> 401, s |-> "RESOURCE_EXHAUSTED"],
     [c |-> 403, s |-> "PERMISSION_DENIED"], [c |-> 429, s |-> "RESOURCE_EXHAUSTED"],
     [c |-> 429, s |-> "UNAVAILABLE"], [c |-> 500, s |-> "INTERNAL"],
     [c |-> 503, s |-> "UNAVAILABLE"], [c |-> 404, s |-> "RESOURCE_EXHAUSTED"]}

Prefixes == {<<>>, <<W>>, <<LB>>, <<LB, ERRKEY>>}
Suffixes == {<<>>, <<W>>, <<RB>>}

\* Well-formed API error payloads, alone and inside other text.
JsonStrings ==
    {ApiJson(ApiBody(p.c, m, p.s)) : p \in OuterPairs, m \in Msgs(MaxNest)}
    \cup {pre \o ApiJson(ApiBody(p.c, m, p.s)) \o suf :
            pre \in Prefixes, suf \in Suffixes, p \in OuterPairs, m \in Prose}

\* JSON that parses but is no API error, or is one only from the first brace.
ShapeStrings ==
    {ApiJson(BodyTok(Undefined, Some(<<W>>), Some("INTERNAL"))),
     ApiJson(BodyTok(Some(429), Undefined, Some("RESOURCE_EXHAUSTED"))),
     ApiJson(BodyTok(Some(401), Some(<<QPRO>>), Undefined)),
     <<LB, ApiBody(429, <<QPRO>>, "RESOURCE_EXHAUSTED"), RB>>,
     <<LB, XKEY>> \o ApiJson(ApiBody(429, <<W>>, "RESOURCE_EXHAUSTED")) \o <<RB>>,
     <<LB, ERRKEY, LIT, RB>>,
     <<LB, XKEY>> \o ApiJson(ApiBody(401, <<W>>, "UNAUTHENTICATED")) \o <<COMMA, ERRKEY, LB,
         ApiBody(429, <<QGEN>>, "RESOURCE_EXHAUSTED"), RB, RB>>}

\* API error payloads whose message is itself JSON text that is no API error:
\* an empty object, an error object without a code, truncated JSON.
NestedShapeStrings ==
    {ApiJson(ApiBody(p.c, m, p.s)) :
        p \in {[c |-> 429, s |-> "RESOURCE_EXHAUSTED"], [c |-> 500, s |-> "INTERNAL"]},
        m \in {<<LB, RB>>,
               ApiJson(BodyTok(Undefined, Some(<<QPRO>>), Some("RESOURCE_EXHAUSTED"))),
               <<LB, ERRKEY, LB, ApiBody(401, <<W>>, "UNAUTHENTICATED"), RB>>,
               <<LB, XKEY>> \o ApiJson(ApiBody(401, <<W>>, "UNAUTHENTICATED")) \o <<RB>>}}

\* API error payloads that do not begin with the marker, {"x":null,"error":{..}},
\* alone and inside other text.
KeyedJsonStrings ==
    {pre \o <<LB, XKEY, LIT, COMMA, ERRKEY, LB, ApiBody(p.c, <<W>>, p.s), RB, RB>> \o suf :
        pre \in Prefixes, suf \in Suffixes,
        p \in {[c |-> 429, s |-> "RESOURCE_EXHAUSTED"], [c |-> 403, s |-> "PERMISSION_DENIED"]}}

Alphabet == {LB, RB, COMMA, ERRKEY, LIT, W, ApiBody(429, <<QPRO>>, "RESOURCE_EXHAUSTED")}

ArbitraryStrings == SeqsUpTo(Alphabet, MaxLen)

StringInputs ==
    {Str(t) : t \in JsonStrings \cup ShapeStrings \cup NestedShapeStrings
                    \cup KeyedJsonStrings \cup ArbitraryStrings \cup Prose}

Inputs == StructuredInputs \cup StringInputs \cup UnknownInputs

\* Inputs tried under every context.
CoreMsgs == {<<W>>, <<QGEN>>, <<QPRO>>, <<QPRO, QGEN>>,
             ApiJson(ApiBody(429, <<QPRO>>, "RESOURCE_EXHAUSTED"))}

CoreInputs ==
    {Structured(m, Some(Num(429))) : m \in CoreMsgs}
    \cup {Str(ApiJson(ApiBody(429, m, s))) : m \in CoreMsgs, s \in {"RESOURCE_EXHAUSTED", "UNAVAILABLE"}}
    \cup {Structured(<<W>>, Some(Num(403))), Str(<<W>>), Raw("null", Undefined, Undefined, <<>>)}

AuthTypes == {Undefined, Some(LOGIN_WITH_GOOGLE), Some(USE_GEMINI), Some(USE_VERTEX_AI), Some(CLOUD_SHELL)}
UserTiers ==
    {Undefined, Some(TIER_FREE), Some(TIER_LEGACY), Some(TIER_STANDARD), Some("other-tier")}
CurrentModels == {Undefined, Some(""), Some("gemini-2.5-pro-preview")}
FallbackModels == {Undefined, Some(""), Some("gemini-2.5-flash-lite")}

Contexts ==
    [authType : AuthTypes, userTier : UserTiers,
     currentModel : CurrentModels, fallbackModel : FallbackModels]

BaseContexts ==
    {[authType |-> Undefined, userTier |-> Undefined,
      currentModel |-> Undefined, fallbackModel |-> Undefined],
     [authType |-> Some(LOGIN_WITH_GOOGLE), userTier |-> Some(TIER_STANDARD),
      currentModel |-> Some("gemini-2.5-pro-preview"),
      fallbackModel |-> Some("gemini-2.5-flash-lite")]}

\* ------------------------------------------- inputs of the InformationDialog
\* JSON texts found in the message of an outer error.
NestedMessages == {<<W, DOT, W>>, <<W>>}

NestedBodies ==
    {BodyTok(c, m, s) :
        c \in {Undefined, Some(429), Some(401), Some(403), Some(500)},
        m \in {Undefined} \cup {Some(x) : x \in NestedMessages},
        s \in {Undefined, Some("RESOURCE_EXHAUSTED"), Some("INTERNAL")}}

DetailSets ==
    {<<QuotaFailure(Some("50"), Some(DEFAULT_GEMINI_MODEL)), Help(Some(AI_STUDIO_API_KEY_URL))>>,
     <<QuotaFailure(Undefined, Undefined), OtherDetail, Help(Undefined)>>,
     <<>>}

NestedTexts ==
    {<<LIT>>, <<NUMLIT>>, <<LB, RB>>, <<LB, ERRKEY, LIT, RB>>, <<LB, ERRKEY, NUMLIT, RB>>,
     <<LB, ERRKEY, LB, NUMMSG, RB, RB>>, <<LB, ERRKEY>>}
    \cup {ApiJson(b) : b \in NestedBodies}
    \cup {<<LB, ERRKEY, LB, BodyTok(Some(429), m, Some("RESOURCE_EXHAUSTED")),
             COMMA, DetailsTok(d), RB, RB>> :
            m \in {Undefined, Some(<<W, DOT, W>>)}, d \in DetailSets}

OuterMessages == {Undefined, Some(<<>>), Some(<<W>>)} \cup {Some(t) : t \in NestedTexts}

OuterBodies ==
    {BodyTok(c, m, s) :
        c \in {Undefined, Some(429), Some(401), Some(403), Some(500)},
        m \in OuterMessages,
        s \in {Undefined, Some("Too Many Requests"), Some("RESOURCE_EXHAUSTED")}}

\* What can stand as the data of a message: no object, an object without
\* an error, an error that is no object, a message that is no string, a
\* structured error, and API errors.
PlainDataTexts ==
    {<<LIT>>, <<NUMLIT>>, <<LB, RB>>, <<LB, XKEY, LIT, RB>>, <<LB, ERRKEY, LIT, RB>>,
     <<LB, ERRKEY, NUMLIT, RB>>, <<LB, ERRKEY, LB, RB, RB>>,
     <<LB, ERRKEY, LB, NUMMSG, RB, RB>>,
     <<LB, BodyTok(Undefined, Some(<<W>>), Undefined), COMMA, StatusTok(403), RB>>}

DataTexts == PlainDataTexts \cup {ApiJson(b) : b \in OuterBodies}

ApiErrorEnvelope(data) == <<LB, TYPEKEY, API_ERROR, COMMA, DATAKEY>> \o data \o <<RB>>

\* Every kind of input string: text that is no JSON, JSON primitives,
\* objects with a missing or unknown type, api_error messages without data,
\* and api_error messages with each data.
InformationInputs ==
    {<<>>, <<W>>, <<LB>>, <<LB, TYPEKEY, API_ERROR>>, <<W, LB, RB>>,
     <<LIT>>, <<NUMLIT>>, <<API_ERROR>>,
     <<LB, RB>>, <<LB, XKEY, LIT, RB>>, <<LB, TYPEKEY, NOTICE, RB>>,
     <<LB, TYPEKEY, NUMLIT, RB>>, <<LB, TYPEKEY, LIT, RB>>, <<LB, TYPEKEY, API_ERROR, RB>>}
    \cup {ApiErrorEnvelope(d) : d \in DataTexts}
    \cup {<<LB, DATAKEY>> \o d \o <<COMMA, TYPEKEY, API_ERROR, RB>> : d \in PlainDataTexts}
    \cup {<<LB, TYPEKEY, NOTICE, COMMA, DATAKEY>> \o d \o <<RB>> : d \in PlainDataTexts}
    \cup {<<LB, DATAKEY>> \o d \o <<RB>> : d \in PlainDataTexts}

\* The data a caller can send for an error it has parsed, as ApiErrorData
\* declares it: the raw error itself (the structured error with its message
\* and status, or the API error payload found in the string) ...
RawErrorData(e, p) ==
    IF p.origin = "structured"
    THEN {<<LB, BodyTok(Undefined, Some(e.message[1].v), Undefined)>>
          \o (IF e.status # Undefined /\ e.status[1].ty = "number"
              THEN <<COMMA, StatusTok(e.status[1].v)>>
              ELSE <<>>)
          \o <<RB>>}
    ELSE IF p.origin = "json"
    THEN {CandidateOf(e.str, StartOf(e.str), LastIndexOfTok(e.str, RB))}
    ELSE {}

\* ... or an API error made of the status, message and apiStatus of the
\* ParsedError.
ParsedErrorData(p) ==
    ApiJson(BodyTok(IF p.httpStatus # Undefined /\ p.httpStatus[1].ty = "number"
                    THEN Some(p.httpStatus[1].v)
                    ELSE p.apiCode,
                    Some(p.errorMessage), p.apiStatus))

MessagesFor(e, p) == {ApiErrorEnvelope(d) : d \in RawErrorData(e, p) \cup {ParsedErrorData(p)}}

\* Errors shown in the dialog.
DisplayedErrors ==
    CoreInputs
    \cup {Str(ApiJson(ApiBody(q.c, <<W>>, q.s))) : q \in OuterPairs}
    \cup {Structured(<<W>>, st) : st \in StatusValues}

\* ----------------------------------------- AppContainer: Ctrl+C and Ctrl+D
CTRL_EXIT_PROMPT_DURATION_MS == 1000

\* The delay of the quit action's setTimeout before process.exit(0).
QUIT_EXIT_DELAY_MS == 100

\* Time passes in steps of TickMs.
TickMs == QUIT_EXIT_DELAY_MS \div 2

\* No more than MaxQuits quit commands are counted.
MaxQuits == 2

\* A timer reference: null, the handle of a pending timer, or the handle of a
\* timer that was cleared (the reference keeps the handle).  left is the time
\* until the delay the timer was started with is over; it goes on counting
\* down for a cleared handle, as the time since the timer was started.
NoTimer == [st |-> "null", left |-> 0]

setTimeout(ms) == [st |-> "pending", left |-> ms]

clearTimeout(timer) == [timer EXCEPT !.st = "cleared"]

Commands ==
    {"SHOW_ERROR_DETAILS", "TOGGLE_TOOL_DESCRIPTIONS", "TOGGLE_IDE_CONTEXT_DETAIL",
     "QUIT", "EXIT", "SHOW_MORE_LINES"}

\* The keys a user presses: one per command, and a key no command is bound to.
Keys == Commands \cup {"OTHER"}

\* The state of AppContainer the key handler reads and writes; quits counts
\* the "/quit" commands handed to handleSlashCommand.  constrainHeight,
\* showErrorDetails and showToolDescriptions are left out: the QUIT and EXIT
\* branches neither read nor write them.
InitialApp ==
    [ctrlCPressedOnce |-> FALSE, ctrlCTimerRef |-> NoTimer,
     ctrlDPressedOnce |-> FALSE, ctrlDTimerRef |-> NoTimer,
     isAuthenticating |-> FALSE, bufferTextLength |-> 0, requestOngoing |-> FALSE,
     quittingMessages |-> FALSE, exitTimer |-> NoTimer, exited |-> FALSE,
     quits |-> 0]

\* slashCommandActions.quit: show the quitting messages, exit 100 ms later.
\* exitTimer is the earliest of the exit timers started.
quit(a) ==
    [a EXCEPT !.quittingMessages = TRUE,
              !.exitTimer = IF @.st = "pending" THEN @ ELSE setTimeout(QUIT_EXIT_DELAY_MS)]

\* handleSlashCommand(command): "/quit" runs the quit action; the other
\* commands the key handler issues change nothing of this state.
handleSlashCommand(a, command) ==
    IF command = "/quit" THEN quit([a EXCEPT !.quits = @ + 1]) ELSE a

handleExit_quitAtOnce(pressedOnce, timerRef) ==
    [pressedOnce |-> pressedOnce,
     timerRef |-> IF timerRef.st # "null" THEN clearTimeout(timerRef) ELSE timerRef,
     command |-> "/quit"]

\* handleExit(pressedOnce, setPressedOnce, timerRef): the new flag, the new
\* timer reference and the slash command issued.
handleExit(pressedOnce, timerRef) ==
    IF pressedOnce
    THEN [pressedOnce |-> pressedOnce,
          timerRef |-> IF timerRef.st # "null" THEN clearTimeout(timerRef) ELSE timerRef,
          command |-> "/quit"]
    ELSE [pressedOnce |-> TRUE,
          timerRef |-> setTimeout(CTRL_EXIT_PROMPT_DURATION_MS),
          command |-> "none"]

\* The QUIT branch of handleGlobalKeypress once isAuthenticating is false.
OnQuitKey(a, exit) ==
    handleSlashCommand(
        [a EXCEPT !.requestOngoing = IF a.ctrlCPressedOnce THEN @ ELSE FALSE,
                  !.ctrlCPressedOnce = exit.pressedOnce,
                  !.ctrlCTimerRef = exit.timerRef],
        exit.command)

\* The EXIT branch of handleGlobalKeypress once the buffer is empty.
OnExitKey(a, exit) ==
    handleSlashCommand(
        [a EXCEPT !.ctrlDPressedOnce = exit.pressedOnce,
                  !.ctrlDTimerRef = exit.timerRef],
        exit.command)

\* handleGlobalKeypress(key); hasMcpServers and ideContext are what config and
\* ideContextState say at the time of the press.
handleGlobalKeypress(a, key, hasMcpServers, ideContext) ==
    CASE key = "SHOW_ERROR_DETAILS" -> a
      [] key = "TOGGLE_TOOL_DESCRIPTIONS" ->
            handleSlashCommand(a, IF hasMcpServers THEN "/mcp desc" ELSE "none")
      [] key = "TOGGLE_IDE_CONTEXT_DETAIL" /\ ideContext ->
            handleSlashCommand(a, "/ide status")
      [] key = "QUIT" ->
            IF a.isAuthenticating THEN a
            ELSE OnQuitKey(a, handleExit(a.ctrlCPressedOnce, a.ctrlCTimerRef))
      [] key = "EXIT" ->
            IF a.bufferTextLength > 0 THEN a
            ELSE OnExitKey(a, handleExit(a.ctrlDPressedOnce, a.ctrlDTimerRef))
      [] OTHER -> a

\* The delay of a pending timer is over.
Due(timer) == timer.st = "pending" /\ timer.left = 0

\* The process runs and no timer is due: a callback that is due runs before
\* anything else happens.
Running(a) ==
    /\ ~a.exited
    /\ ~Due(a.ctrlCTimerRef) /\ ~Due(a.ctrlDTimerRef) /\ ~Due(a.exitTimer)

\* The timer TickMs later.
Later(timer) ==
    IF timer.left > TickMs THEN [timer EXCEPT !.left = @ - TickMs]
    ELSE [timer EXCEPT !.left = 0]

\* ------------------------------------------------ App and DialogManager
\* The fields of the UI state that App and DialogManager read to choose what
\* to render.  A request is TRUE when it is an object, FALSE when it is null;
\* quittingMessages is TRUE when it is a list, FALSE when it is null.
InitialUIState ==
    [shouldShowIdePrompt |-> FALSE, isFolderTrustDialogOpen |-> FALSE,
     shellConfirmationRequest |-> FALSE, confirmationRequest |-> FALSE,
     isThemeDialogOpen |-> FALSE, isSettingsDialogOpen |-> FALSE,
     isAuthenticating |-> FALSE, isAuthDialogOpen |-> FALSE,
     isEditorDialogOpen |-> FALSE, showPrivacyNotice |-> FALSE,
     quittingMessages |-> FALSE]

DialogManager_everyOpenDialog(state) ==
    (IF state.shouldShowIdePrompt THEN {"IdeIntegrationNudge"} ELSE {})
    \cup (IF state.isFolderTrustDialogOpen THEN {"FolderTrustDialog"} ELSE {})
    \cup (IF state.shellConfirmationRequest THEN {"ShellConfirmationDialog"} ELSE {})
    \cup (IF state.confirmationRequest THEN {"RadioButtonSelect"} ELSE {})
    \cup (IF state.isThemeDialogOpen THEN {"ThemeDialog"} ELSE {})
    \cup (IF state.isSettingsDialogOpen THEN {"SettingsDialog"} ELSE {})
    \cup (IF state.isAuthenticating THEN {"AuthInProgress"} ELSE {})
    \cup (IF state.isAuthDialogOpen THEN {"AuthDialog"} ELSE {})
    \cup (IF state.isEditorDialogOpen THEN {"EditorSettingsDialog"} ELSE {})
    \cup (IF state.showPrivacyNotice THEN {"PrivacyNotice"} ELSE {})

\* DialogManager: the components it renders; the empty set is null.
DialogManager(state) ==
    IF state.shouldShowIdePrompt THEN {"IdeIntegrationNudge"}
    ELSE IF state.isFolderTrustDialogOpen THEN {"FolderTrustDialog"}
    ELSE IF state.shellConfirmationRequest THEN {"ShellConfirmationDialog"}
    ELSE IF state.confirmationRequest THEN {"RadioButtonSelect"}
    ELSE IF state.isThemeDialogOpen THEN {"ThemeDialog"}
    ELSE IF state.isSettingsDialogOpen THEN {"SettingsDialog"}
    ELSE IF state.isAuthenticating THEN {"AuthInProgress"}
    ELSE IF state.isAuthDialogOpen THEN {"AuthDialog"}
    ELSE IF state.isEditorDialogOpen THEN {"EditorSettingsDialog"}
    ELSE IF state.showPrivacyNotice THEN {"PrivacyNotice"}
    ELSE {}

dialogsVisible_withoutPrivacyNotice(props) ==
    \/ props.shouldShowIdePrompt
    \/ props.isFolderTrustDialogOpen
    \/ props.shellConfirmationRequest
    \/ props.confirmationRequest
    \/ props.isThemeDialogOpen
    \/ props.isSettingsDialogOpen
    \/ props.isAuthenticating
    \/ props.isAuthDialogOpen
    \/ props.isEditorDialogOpen

\* dialogsVisible of App.
dialogsVisible(props) ==
    \/ props.shouldShowIdePrompt
    \/ props.isFolderTrustDialogOpen
    \/ props.shellConfirmationRequest
    \/ props.confirmationRequest
    \/ props.isThemeDialogOpen
    \/ props.isSettingsDialogOpen
    \/ props.isAuthenticating
    \/ props.isAuthDialogOpen
    \/ props.isEditorDialogOpen
    \/ props.showPrivacyNotice

\* App: the components on the screen.  App's props and DialogManager's UI
\* state hold the same values.
App(props) ==
    IF props.quittingMessages THEN {"HistoryItemDisplay"}
    ELSE {"AppHeader", "MainContent", "Notifications"}
         \cup (IF dialogsVisible(props) THEN DialogManager(props) ELSE {"InputArea"})

\* ------------------------------------------------------------ state machine
\* No call has returned yet.
NoResult ==
    [threw |-> FALSE, type |-> "none", title |-> "none", customMessage |-> Undefined,
     errorMessage |-> <<>>, rawError |-> Raw("undefined", Undefined, Undefined, <<>>),
     httpStatus |-> Undefined, apiStatus |-> Undefined, apiCode |-> Undefined,
     origin |-> "none"]

NoText == [threw |-> FALSE, str |-> <<>>]

\* No information message has been sent, none has been processed.
NoInput == <<>>
NoProcessed == [threw |-> FALSE, title |-> "none", content |-> UndefinedV]

Init ==
    /\ \/ error \in Inputs /\ ctx \in BaseContexts
       \/ error \in CoreInputs /\ ctx \in Contexts
    /\ pc = "call"
    /\ parsed = NoResult
    /\ text = NoText
    /\ reparsed = NoResult
    /\ dialogContent = NoInput
    /\ shown = NoProcessed
    /\ app = InitialApp
    /\ uiState = InitialUIState
    /\ rendered = App(InitialUIState)

\* A caller invokes parseError(error, authType, userTier, currentModel, fallbackModel).
CallParseError ==
    /\ pc = "call"
    /\ parsed' = parseError(error, ctx.authType, ctx.userTier, ctx.currentModel, ctx.fallbackModel)
    /\ pc' = "parsed"
    /\ UNCHANGED <<error, ctx, text, reparsed, dialogContent, shown, app, uiState, rendered>>

\* A caller invokes parseAndFormatApiError with the same arguments; parsed is
\* the ParsedError it builds on the way.
CallParseAndFormatApiError ==
    /\ pc = "call"
    /\ parsed' = parseError(error, ctx.authType, ctx.userTier, ctx.currentModel, ctx.fallbackModel)
    /\ text' = parseAndFormatApiError(error, ctx.authType, ctx.userTier, ctx.currentModel, ctx.fallbackModel)
    /\ pc' = "formatted"
    /\ UNCHANGED <<error, ctx, reparsed, dialogContent, shown, app, uiState, rendered>>

\* The caller hands the errorMessage of the ParsedError it got back to
\* parseError, as a string and with the same context.
CallParseErrorAgain ==
    /\ pc = "parsed"
    /\ ~parsed.threw
    /\ reparsed' = parseError(Str(parsed.errorMessage), ctx.authType, ctx.userTier,
                              ctx.currentModel, ctx.fallbackModel)
    /\ pc' = "reparsed"
    /\ UNCHANGED <<error, ctx, parsed, text, dialogContent, shown, app, uiState, rendered>>

Next == CallParseError \/ CallParseAndFormatApiError \/ CallParseErrorAgain

Spec == Init /\ [][Next]_vars

\* ---------------------------------------- the InformationDialog's machine
\* Either an error is about to be parsed and sent to the dialog, or some
\* information message is already on its way.
DialogInit ==
    /\ \/ /\ pc = "call"
          /\ error \in DisplayedErrors
          /\ ctx \in BaseContexts
          /\ dialogContent = NoInput
       \/ /\ pc = "message"
          /\ error = Raw("undefined", Undefined, Undefined, <<>>)
          /\ ctx \in {c \in BaseContexts : c.authType = Undefined}
          /\ dialogContent \in InformationInputs
    /\ parsed = NoResult
    /\ text = NoText
    /\ reparsed = NoResult
    /\ shown = NoProcessed
    /\ app = InitialApp
    /\ uiState = InitialUIState
    /\ rendered = App(InitialUIState)

\* The caller sends the error it has parsed as an api_error message.
SendApiError ==
    /\ pc = "parsed"
    /\ ~parsed.threw
    /\ dialogContent' \in MessagesFor(error, parsed)
    /\ pc' = "message"
    /\ UNCHANGED <<error, ctx, parsed, text, reparsed, shown, app, uiState, rendered>>

\* InformationDialog renders: processInformationMessage(data.content).
RenderInformationDialog ==
    /\ pc = "message"
    /\ shown' = processInformationMessage(dialogContent)
    /\ pc' = "shown"
    /\ UNCHANGED <<error, ctx, parsed, text, reparsed, dialogContent, app, uiState, rendered>>

DialogNext == CallParseError \/ SendApiError \/ RenderInformationDialog

DialogSpec == DialogInit /\ [][DialogNext]_vars

\* ------------------------------------------------ AppContainer's machine
\* No error is being parsed and no information message is on its way.
ErrorsIdle ==
    /\ error = Raw("undefined", Undefined, Undefined, <<>>)
    /\ ctx = [authType |-> Undefined, userTier |-> Undefined,
              currentModel |-> Undefined, fallbackModel |-> Undefined]
    /\ pc = "idle"
    /\ parsed = NoResult
    /\ text = NoText
    /\ reparsed = NoResult
    /\ dialogContent = NoInput
    /\ shown = NoProcessed

KeysInit ==
    /\ ErrorsIdle
    /\ app = InitialApp
    /\ uiState = InitialUIState
    /\ rendered = App(InitialUIState)

\* The user presses a key; useKeypress calls handleGlobalKeypress.
Keypress ==
    /\ Running(app)
    /\ app.quits < MaxQuits
    /\ \E key \in Keys, hasMcpServers \in BOOLEAN, ideContext \in BOOLEAN :
          app' = handleGlobalKeypress(app, key, hasMcpServers, ideContext)
    /\ UNCHANGED <<errVars, uiState, rendered>>

\* The callback of the timer handleExit started for Ctrl+C.
CtrlCTimerFires ==
    /\ ~app.exited
    /\ Due(app.ctrlCTimerRef)
    /\ app' = [app EXCEPT !.ctrlCPressedOnce = FALSE, !.ctrlCTimerRef = NoTimer]
    /\ UNCHANGED <<errVars, uiState, rendered>>

\* The callback of the timer handleExit started for Ctrl+D.
CtrlDTimerFires ==
    /\ ~app.exited
    /\ Due(app.ctrlDTimerRef)
    /\ app' = [app EXCEPT !.ctrlDPressedOnce = FALSE, !.ctrlDTimerRef = NoTimer]
    /\ UNCHANGED <<errVars, uiState, rendered>>

\* The callback of the quit action's timer: process.exit(0).  Nothing of the
\* process's state is left.
ExitTimerFires ==
    /\ ~app.exited
    /\ Due(app.exitTimer)
    /\ app' = [InitialApp EXCEPT !.exited = TRUE]
    /\ UNCHANGED <<errVars, uiState, rendered>>

\* TickMs pass.
Tick ==
    /\ Running(app)
    /\ app' = [app EXCEPT !.ctrlCTimerRef = Later(@), !.ctrlDTimerRef = Later(@),
                          !.exitTimer = Later(@)]
    /\ UNCHANGED <<errVars, uiState, rendered>>

\* Authentication starts or ends.
SetIsAuthenticating ==
    /\ Running(app)
    /\ app' = [app EXCEPT !.isAuthenticating = ~@]
    /\ UNCHANGED <<errVars, uiState, rendered>>

\* The user types into the empty input buffer, or empties it.
EditBuffer ==
    /\ Running(app)
    /\ app' = [app EXCEPT !.bufferTextLength = 1 - @]
    /\ UNCHANGED <<errVars, uiState, rendered>>

\* A request to the model starts.
SubmitQuery ==
    /\ Running(app)
    /\ ~app.requestOngoing
    /\ app' = [app EXCEPT !.requestOngoing = TRUE]
    /\ UNCHANGED <<errVars, uiState, rendered>>

KeysNext ==
    \/ Keypress
    \/ CtrlCTimerFires
    \/ CtrlDTimerFires
    \/ ExitTimerFires
    \/ Tick
    \/ SetIsAuthenticating
    \/ EditBuffer
    \/ SubmitQuery

KeysSpec == KeysInit /\ [][KeysNext]_vars

\* Node runs a timer's callback once its delay is over, and time goes on.
KeysFairSpec ==
    /\ KeysSpec
    /\ WF_vars(Tick)
    /\ WF_vars(CtrlCTimerFires)
    /\ WF_vars(CtrlDTimerFires)
    /\ WF_vars(ExitTimerFires)

\* --------------------------------------------------------- App's machine
DialogsInit ==
    /\ ErrorsIdle
    /\ app = InitialApp
    /\ uiState = InitialUIState
    /\ rendered = App(uiState)

\* A dialog opens or closes, a request arrives or is answered, authentication
\* starts or ends; App renders again.
SetDialogFlag ==
    /\ \E flag \in DOMAIN uiState \ {"quittingMessages"} :
          uiState' = [uiState EXCEPT ![flag] = ~@]
    /\ rendered' = App(uiState')
    /\ UNCHANGED <<errVars, app>>

\* The quit action sets the quitting messages; App renders again.
SetQuittingMessages ==
    /\ ~uiState.quittingMessages
    /\ uiState' = [uiState EXCEPT !.quittingMessages = TRUE]
    /\ rendered' = App(uiState')
    /\ UNCHANGED <<errVars, app>>

DialogsNext == SetDialogFlag \/ SetQuittingMessages

DialogsSpec == DialogsInit /\ [][DialogsNext]_vars

Returned == pc # "call"

\* ------------------------------------------------------------ claims
\* httpStatus of a structured error, otherwise apiCode of a parsed JSON payload.
EffectiveStatus(p) ==
    IF p.httpStatus # Undefined THEN p.httpStatus
    ELSE IF p.apiCode # Undefined THEN Some(Num(p.apiCode[1]))
    ELSE Undefined

AuthStatuses == {Some(Num(401)), Some(Num(403))}

\* The API payload embedded in a string input.
PayloadOf(e) == extractApiErrorFromString(e.str)

\* What the quota detectors are asked about for the input e.
DetectionTargetOf(e) ==
    IF isStructuredError(e) THEN StructuredTarget(e) ELSE ApiTarget(PayloadOf(e).apiError)

\* C1: parseError returns AUTH exactly when the effective status is 401 or 403:
\* every structured error with numeric status 401/403 and every JSON payload
\* with code 401/403 is AUTH whatever its message says, and a 429 is never AUTH.
C1_AuthIffStatus401Or403 ==
    Returned =>
        /\ (parsed.type = "AUTH") <=> (EffectiveStatus(parsed) \in AuthStatuses)
        /\ (isStructuredError(error) /\ error.status \in AuthStatuses) => parsed.type = "AUTH"
        /\ (error.ty = "string" /\ PayloadOf(error).found
              /\ PayloadOf(error).apiError.err[1].c[1] \in {401, 403}) => parsed.type = "AUTH"
        /\ EffectiveStatus(parsed) = Some(Num(429)) => parsed.type # "AUTH"

\* A 403 whose message carries a quota signature has been classified AUTH.
C1_Witness ==
    /\ Returned
    /\ isStructuredError(error)
    /\ error.status = Some(Num(403))
    /\ isProQuotaExceededError(StructuredTarget(error))
    /\ parsed.type = "AUTH"

\* C2: for an effective status of 429 the type is PRO_QUOTA if the pro-quota
\* detector accepts the detection target, otherwise GENERIC_QUOTA if the
\* generic-quota detector accepts it, otherwise RATE_LIMIT.
C2_Status429SubclassifiedInOrder ==
    (Returned /\ EffectiveStatus(parsed) = Some(Num(429))) =>
        parsed.type =
            (IF isProQuotaExceededError(DetectionTargetOf(error)) THEN "PRO_QUOTA"
             ELSE IF isGenericQuotaExceededError(DetectionTargetOf(error)) THEN "GENERIC_QUOTA"
             ELSE "RATE_LIMIT")

\* Both detectors accept the target of a 429 and the result is PRO_QUOTA.
C2_Witness ==
    /\ Returned
    /\ EffectiveStatus(parsed) = Some(Num(429))
    /\ isProQuotaExceededError(DetectionTargetOf(error))
    /\ isGenericQuotaExceededError(DetectionTargetOf(error))
    /\ parsed.type = "PRO_QUOTA"

\* C3: every input whose effective status is none of 401, 403, 429 (500, 502,
\* 503, other numbers, no status at all) gives GENERIC, no customMessage and
\* the title "API Error".
C3_OtherStatusIsGeneric ==
    (Returned /\ EffectiveStatus(parsed) \notin (AuthStatuses \cup {Some(Num(429))})) =>
        /\ parsed.type = "GENERIC"
        /\ parsed.customMessage = Undefined
        /\ parsed.title = "API Error"

\* A structured error with status 503 has been classified.
C3_Witness ==
    /\ Returned
    /\ isStructuredError(error)
    /\ error.status = Some(Num(503))
    /\ parsed.type = "GENERIC"

\* The message is a JSON-encoded API error whose own message carries the
\* pro-quota signature.
NestedProSignature(message) ==
    /\ Len(message) = 6
    /\ message[4].k = "body"
    /\ message = ApiJson(message[4])
    /\ message[4].c # Undefined /\ message[4].m # Undefined /\ message[4].s # Undefined
    /\ Includes(message[4].m[1], QPRO)

\* C4: a structured error with status 429 whose message carries the pro-quota
\* signature, in the message text itself or one JSON-decode level inside it,
\* is PRO_QUOTA.
C4_Structured429ProSignature ==
    (/\ Returned
     /\ isStructuredError(error)
     /\ error.status = Some(Num(429))
     /\ \/ Includes(error.message[1].v, QPRO)
        \/ NestedProSignature(error.message[1].v)) =>
        parsed.type = "PRO_QUOTA"

\* The signature is only in the nested payload and the result is PRO_QUOTA.
C4_Witness ==
    /\ Returned
    /\ isStructuredError(error)
    /\ error.status = Some(Num(429))
    /\ ~Includes(error.message[1].v, QPRO)
    /\ NestedProSignature(error.message[1].v)
    /\ parsed.type = "PRO_QUOTA"

\* C5: parseError and parseAndFormatApiError return normally for every input
\* and context, and the result has one of the five types.
C5_Total ==
    /\ Returned => (~parsed.threw /\ parsed.type \in ParsedErrorType)
    /\ pc = "formatted" => ~text.threw

\* A string with an opening brace that is no valid JSON has been formatted.
C5_Witness ==
    /\ pc = "formatted"
    /\ error.ty = "string"
    /\ Includes(error.str, LB)
    /\ ~JSONparse(error.str).ok
    /\ parsed.origin = "text"
    /\ ~text.threw

RateLimitFamily == {"PRO_QUOTA", "GENERIC_QUOTA", "RATE_LIMIT"}

\* C6: customMessage is present exactly for PRO_QUOTA, GENERIC_QUOTA and
\* RATE_LIMIT, that is exactly when the effective status is 429.
C6_CustomMessageIffRateLimitFamily ==
    Returned =>
        /\ (parsed.customMessage # Undefined) <=> (parsed.type \in RateLimitFamily)
        /\ (parsed.customMessage # Undefined) <=> (EffectiveStatus(parsed) = Some(Num(429)))

\* A RATE_LIMIT result carries a customMessage.
C6_Witness ==
    /\ Returned
    /\ parsed.type = "RATE_LIMIT"
    /\ parsed.customMessage # Undefined

\* C7: the title depends on the type alone: "Quota Exceeded" for PRO_QUOTA and
\* GENERIC_QUOTA, "Rate Limit Exceeded" for RATE_LIMIT, "Authentication Error"
\* for AUTH, "API Error" for GENERIC.
C7_TitleByType ==
    Returned =>
        /\ parsed.type \in {"PRO_QUOTA", "GENERIC_QUOTA"} => parsed.title = "Quota Exceeded"
        /\ parsed.type = "RATE_LIMIT" => parsed.title = "Rate Limit Exceeded"
        /\ parsed.type = "AUTH" => parsed.title = "Authentication Error"
        /\ parsed.type = "GENERIC" => parsed.title = "API Error"

\* A RATE_LIMIT result under Google login with a paid tier has its own title.
C7_Witness ==
    /\ Returned
    /\ parsed.type = "RATE_LIMIT"
    /\ ctx.authType = Some(LOGIN_WITH_GOOGLE)
    /\ parsed.title = "Rate Limit Exceeded"

\* The legacy string opens with "[", a title, ": " and the error message.
OpensWith(s, title, message) ==
    /\ Len(s) >= 4 + Len(message)
    /\ SubSeq(s, 1, 3) = <<Tok("["), Tok(title), Tok(": ")>>
    /\ SubSeq(s, 4, 3 + Len(message)) = message
    /\ s[4 + Len(message)] \in {Tok("]"), Tok(" (Status: ")}

\* C8 as stated: the legacy string is "[<Title>: <message>...]" with the title
\* of the classified kind.
C8_PrefixIsTitleOfKind ==
    pc = "formatted" => OpensWith(text.str, parsed.title, parsed.errorMessage)

\* C8 amended: the legacy string is "[API Error: <message>...]" for every
\* kind; the message is the normalized error message.
C8_PrefixIsAlwaysApiError ==
    pc = "formatted" => OpensWith(text.str, "API Error", parsed.errorMessage)

\* An AUTH error has been formatted with the prefix "[API Error: ".
C8_Witness ==
    /\ pc = "formatted"
    /\ parsed.type = "AUTH"
    /\ parsed.title = "Authentication Error"
    /\ OpensWith(text.str, "API Error", parsed.errorMessage)

\* C9: " (Status: X)" stands inside the brackets exactly when the origin is
\* json, and X is the status of the API payload found in the input.
C9_StatusSuffixIffJson ==
    pc = "formatted" =>
        LET s == text.str
            i == IndexOfTok(s, Tok(" (Status: "))
            close == IndexOfTok(s, Tok("]"))
        IN  /\ (i > 0) <=> (parsed.origin = "json")
            /\ parsed.origin = "json" =>
                 /\ i = 4 + Len(parsed.errorMessage)
                 /\ close = i + 3
                 /\ s[i + 1] = Tok(PayloadOf(error).apiError.err[1].s[1])
                 /\ s[i + 2] = Tok(")")

\* A payload that wraps another API error with a different status has been
\* formatted.
C9_Witness ==
    /\ pc = "formatted"
    /\ parsed.origin = "json"
    /\ NestedTarget(PayloadOf(error).apiError.err[1].m[1]) # <<>>
    /\ NestedTarget(PayloadOf(error).apiError.err[1].m[1])[1].status # parsed.apiStatus
    /\ Includes(text.str, Tok(" (Status: "))

\* C10: a structured error keeps origin structured, its status as httpStatus
\* and its message verbatim, also when the message is a JSON-encoded API error.
C10_StructuredVerbatim ==
    (Returned /\ isStructuredError(error)) =>
        /\ parsed.origin = "structured"
        /\ parsed.httpStatus = error.status
        /\ parsed.errorMessage = error.message[1].v

\* A structured error whose message is a JSON-encoded API error has returned.
C10_Witness ==
    /\ Returned
    /\ isStructuredError(error)
    /\ NestedTarget(error.message[1].v) # <<>>
    /\ parsed.errorMessage = error.message[1].v

\* The text is exactly {"error":{"code":c,"message":m,"status":s}}.
IsEncodedApiError(message) ==
    /\ Len(message) = 6
    /\ message[4].k = "body"
    /\ message = ApiJson(message[4])
    /\ message[4].c # Undefined /\ message[4].m # Undefined /\ message[4].s # Undefined

\* The text parses as JSON and the value has the API error shape.
ParsesAsApiError(message) == JSONparse(message).ok /\ isApiError(JSONparse(message).val)

\* C11: for origin json, errorMessage is the payload's error.message unwrapped
\* exactly once: the nested error.message when the payload's message parses as
\* an API error (left as it is even when it is an encoded API error again),
\* the payload's message unchanged otherwise; apiCode and apiStatus are the
\* outer payload's.
C11_UnwrapsExactlyOneLevel ==
    (Returned /\ parsed.origin = "json") =>
        LET outer == PayloadOf(error).apiError.err[1]
        IN  /\ IsEncodedApiError(outer.m[1]) => parsed.errorMessage = outer.m[1][4].m[1]
            /\ ParsesAsApiError(outer.m[1]) =>
                  parsed.errorMessage = JSONparse(outer.m[1]).val.err[1].m[1]
            /\ ~ParsesAsApiError(outer.m[1]) => parsed.errorMessage = outer.m[1]
            /\ parsed.apiCode = outer.c
            /\ parsed.apiStatus = outer.s

\* A payload nested two levels deep has returned with the second level still
\* encoded, and code and status of the outer level.
C11_Witness ==
    /\ Returned
    /\ parsed.origin = "json"
    /\ IsEncodedApiError(PayloadOf(error).apiError.err[1].m[1])
    /\ IsEncodedApiError(PayloadOf(error).apiError.err[1].m[1][4].m[1])
    /\ parsed.errorMessage = PayloadOf(error).apiError.err[1].m[1][4].m[1]
    /\ parsed.apiCode # PayloadOf(error).apiError.err[1].m[1][4].c

\* A payload whose message is JSON without the API error shape keeps it.
C11_WitnessNoShape ==
    /\ Returned
    /\ parsed.origin = "json"
    /\ JSONparse(PayloadOf(error).apiError.err[1].m[1]).ok
    /\ ~ParsesAsApiError(PayloadOf(error).apiError.err[1].m[1])
    /\ parsed.errorMessage = PayloadOf(error).apiError.err[1].m[1]

Min(S) == CHOOSE x \in S : \A y \in S : x <= y
Max(S) == CHOOSE x \in S : \A y \in S : x >= y

MarkerPositions(str) == {i \in 1..Len(str) : IsMarkerAt(str, i)}
Positions(str, tok) == {i \in 1..Len(str) : str[i] = tok}

\* The candidate as the claim describes it: from the first marker, or without
\* a marker from the first opening brace, to the last closing brace.
ClaimedCandidate(str) ==
    LET start == IF MarkerPositions(str) # {} THEN Min(MarkerPositions(str))
                 ELSE IF Positions(str, LB) # {} THEN Min(Positions(str, LB))
                 ELSE 0
    IN  IF start = 0 \/ Positions(str, RB) = {} THEN <<>>
        ELSE SubSeq(str, start, Max(Positions(str, RB)))

BraceFree(t) == \A i \in 1..Len(t) : t[i] # LB /\ t[i] # RB

\* str[i..j] is a well-formed API error object with brace-free prose around it.
ProsePayloadProse(str, i, j) ==
    /\ i <= j
    /\ BraceFree(SubSeq(str, 1, i - 1))
    /\ BraceFree(SubSeq(str, j + 1, Len(str)))
    /\ ParsesAsApiError(SubSeq(str, i, j))

\* str[i..j] is a well-formed API error object and the candidate is str[i..j]:
\* no closing brace after it, no marker before it, and either it begins with
\* the marker or there is no opening brace before it and no marker inside it.
PayloadIsCandidate(str, i, j) ==
    /\ i <= j
    /\ ParsesAsApiError(SubSeq(str, i, j))
    /\ \A k \in (j + 1)..Len(str) : str[k] # RB
    /\ \A k \in 1..(i - 1) : ~IsMarkerAt(str, k)
    /\ \/ IsMarkerAt(str, i)
       \/ /\ \A k \in 1..(i - 1) : str[k] # LB
          /\ \A k \in i..j : ~IsMarkerAt(str, k)

NoStatusFields(p) ==
    p.httpStatus = Undefined /\ p.apiStatus = Undefined /\ p.apiCode = Undefined

\* C13: a string without an opening brace, or whose candidate is no valid
\* JSON, or whose candidate parses but lacks the API error shape, gives origin
\* text, type GENERIC, the whole string as errorMessage and no status field.
C13_TextFallback ==
    (/\ Returned
     /\ error.ty = "string"
     /\ \/ Positions(error.str, LB) = {}
        \/ ~JSONparse(ClaimedCandidate(error.str)).ok
        \/ ~isApiError(JSONparse(ClaimedCandidate(error.str)).val)) =>
        /\ parsed.origin = "text"
        /\ parsed.type = "GENERIC"
        /\ parsed.errorMessage = error.str
        /\ NoStatusFields(parsed)

\* A string that opens with the marker and is truncated JSON has returned as
\* text with the whole string as its message.
C13_Witness ==
    /\ Returned
    /\ error.ty = "string"
    /\ Len(error.str) >= 3
    /\ IsMarkerAt(error.str, 1)
    /\ ~JSONparse(ClaimedCandidate(error.str)).ok
    /\ parsed.origin = "text"
    /\ parsed.errorMessage = error.str

\* Prose followed by JSON that parses but has no error code has returned as
\* text.
C13_WitnessNoShape ==
    /\ Returned
    /\ error.ty = "string"
    /\ JSONparse(ClaimedCandidate(error.str)).ok
    /\ ~isApiError(JSONparse(ClaimedCandidate(error.str)).val)
    /\ parsed.origin = "text"
    /\ parsed.errorMessage = error.str

\* C14: an input that is neither a structured error nor a string gives origin
\* unknown, type GENERIC, the fixed message, no status field and no
\* customMessage, and the same result under every context.
C14_UnknownPath ==
    (Returned /\ ~isStructuredError(error) /\ error.ty # "string") =>
        /\ parsed.origin = "unknown"
        /\ parsed.type = "GENERIC"
        /\ parsed.errorMessage = <<Tok("An unknown error occurred.")>>
        /\ NoStatusFields(parsed)
        /\ parsed.customMessage = Undefined
        /\ \A c \in Contexts :
              parseError(error, c.authType, c.userTier, c.currentModel, c.fallbackModel) = parsed

\* An object with status 429 and no string message has returned under Google
\* login as an unknown error.
C14_Witness ==
    /\ Returned
    /\ error.ty = "object"
    /\ ~isStructuredError(error)
    /\ error.status = Some(Num(429))
    /\ ctx.authType = Some(LOGIN_WITH_GOOGLE)
    /\ parsed.origin = "unknown"

\* C15: for a string that holds no API error object (no opening brace, or a
\* candidate that is no JSON or no API error), parseError gives origin text
\* with the string as errorMessage, and parseError applied to that
\* errorMessage gives the same record again: origin text, the same
\* errorMessage, type GENERIC.
C15_IdempotentOnPlainText ==
    (/\ pc = "reparsed"
     /\ error.ty = "string"
     /\ ~ParsesAsApiError(ClaimedCandidate(error.str))) =>
        /\ parsed.origin = "text"
        /\ parsed.errorMessage = error.str
        /\ reparsed.origin = "text"
        /\ reparsed.errorMessage = parsed.errorMessage
        /\ reparsed.type = "GENERIC"
        /\ reparsed = parsed

\* A string of prose without any brace has been parsed twice.
C15_Witness ==
    /\ pc = "reparsed"
    /\ error.ty = "string"
    /\ Len(error.str) >= 1
    /\ Positions(error.str, LB) = {}
    /\ reparsed.origin = "text"
    /\ reparsed.errorMessage = error.str

\* C16: apiStatus and apiCode are set exactly when the origin is json, and
\* httpStatus is then unset; httpStatus is set only for origin structured, and
\* apiStatus and apiCode are then unset; origins text and unknown carry no
\* status field and have type GENERIC.
C16_StatusFieldsMatchOrigin ==
    Returned =>
        /\ parsed.origin \in {"structured", "json", "text", "unknown"}
        /\ (parsed.apiStatus # Undefined) <=> (parsed.origin = "json")
        /\ (parsed.apiCode # Undefined) <=> (parsed.origin = "json")
        /\ parsed.origin = "json" => parsed.httpStatus = Undefined
        /\ parsed.httpStatus # Undefined => parsed.origin = "structured"
        /\ parsed.origin = "structured" =>
              (parsed.apiStatus = Undefined /\ parsed.apiCode = Undefined)
        /\ parsed.origin \in {"text", "unknown"} =>
              (NoStatusFields(parsed) /\ parsed.type = "GENERIC")

\* A payload with code 429 found in a string has returned with apiCode and
\* apiStatus and without httpStatus.
C16_Witness ==
    /\ Returned
    /\ parsed.origin = "json"
    /\ parsed.apiCode = Some(429)
    /\ parsed.apiStatus # Undefined
    /\ parsed.httpStatus = Undefined
    /\ parsed.type \in RateLimitFamily

\* A structured error without a status has returned with no status field.
C16_WitnessStructured ==
    /\ Returned
    /\ parsed.origin = "structured"
    /\ NoStatusFields(parsed)

\* The model name a message uses for a model argument: the argument, or the
\* default when it is absent or empty.
NameOf(model, default) == IF model \in {Undefined, Some("")} THEN default ELSE model[1]

CurrentName == NameOf(ctx.currentModel, DEFAULT_GEMINI_MODEL)
FallbackName == NameOf(ctx.fallbackModel, DEFAULT_GEMINI_FLASH_MODEL)

PaidTiers == {Some(TIER_LEGACY), Some(TIER_STANDARD)}

Is429 == EffectiveStatus(parsed) = Some(Num(429))

\* C17: under Google login with a paid tier the customMessage of a 429 error
\* holds the appreciation note for all three kinds, the AI Studio key URL
\* exactly for PRO_QUOTA and GENERIC_QUOTA, never the upgrade URL, and for
\* PRO_QUOTA the names of the current and of the fallback model.
C17_GoogleLoginPaidTier ==
    (/\ Returned
     /\ Is429
     /\ ctx.authType = Some(LOGIN_WITH_GOOGLE)
     /\ ctx.userTier \in PaidTiers) =>
        /\ parsed.type \in RateLimitFamily
        /\ parsed.customMessage # Undefined
        /\ Includes(parsed.customMessage[1], Tok(APPRECIATION_NOTE))
        /\ Includes(parsed.customMessage[1], Tok(AI_STUDIO_API_KEY_URL))
              <=> IsQuotaType(parsed.type)
        /\ ~Includes(parsed.customMessage[1], Tok(GEMINI_CODE_ASSIST_UPGRADE_URL))
        /\ parsed.type = "PRO_QUOTA" =>
              /\ Includes(parsed.customMessage[1], Tok(CurrentName))
              /\ Includes(parsed.customMessage[1], Tok(FallbackName))

\* A pro-quota 429 under Google login with the legacy tier names the given
\* current model and carries the appreciation note.
C17_Witness ==
    /\ Returned
    /\ ctx.authType = Some(LOGIN_WITH_GOOGLE)
    /\ ctx.userTier = Some(TIER_LEGACY)
    /\ ctx.currentModel = Some("gemini-2.5-pro-preview")
    /\ parsed.type = "PRO_QUOTA"
    /\ Includes(parsed.customMessage[1], Tok("gemini-2.5-pro-preview"))
    /\ Includes(parsed.customMessage[1], Tok(APPRECIATION_NOTE))

\* A plain rate limit under Google login with a paid tier carries the note
\* and no key suggestion.
C17_WitnessRateLimit ==
    /\ Returned
    /\ ctx.authType = Some(LOGIN_WITH_GOOGLE)
    /\ ctx.userTier = Some(TIER_STANDARD)
    /\ parsed.type = "RATE_LIMIT"
    /\ Includes(parsed.customMessage[1], Tok(APPRECIATION_NOTE))
    /\ ~Includes(parsed.customMessage[1], Tok(AI_STUDIO_API_KEY_URL))

\* The base message of a plain rate limit.
RateLimitBase(fb) ==
    <<Tok(DEFAULT_FALLBACK_PREFIX), Tok(" Switching to the "), Tok(fb),
      Tok(" model for the rest of this session.")>>

\* C18: under Google login with a tier that is not paid (free, absent, any
\* other value) the customMessage of a 429 error holds the upgrade URL exactly
\* for PRO_QUOTA and GENERIC_QUOTA, is the base message alone for RATE_LIMIT
\* and never holds the appreciation note; no customMessage at all holds both
\* the appreciation note and the upgrade URL.
C18_GoogleLoginFreeTier ==
    /\ (/\ Returned
        /\ Is429
        /\ ctx.authType = Some(LOGIN_WITH_GOOGLE)
        /\ ctx.userTier \notin PaidTiers) =>
           /\ parsed.type \in RateLimitFamily
           /\ parsed.customMessage # Undefined
           /\ Includes(parsed.customMessage[1], Tok(GEMINI_CODE_ASSIST_UPGRADE_URL))
                 <=> IsQuotaType(parsed.type)
           /\ parsed.type = "RATE_LIMIT" =>
                 parsed.customMessage[1] = RateLimitBase(FallbackName)
           /\ ~Includes(parsed.customMessage[1], Tok(APPRECIATION_NOTE))
    /\ (Returned /\ parsed.customMessage # Undefined) =>
           ~(/\ Includes(parsed.customMessage[1], Tok(APPRECIATION_NOTE))
             /\ Includes(parsed.customMessage[1], Tok(GEMINI_CODE_ASSIST_UPGRADE_URL)))

\* A generic-quota 429 under Google login with the free tier carries the
\* upgrade URL and not the appreciation note.
C18_Witness ==
    /\ Returned
    /\ ctx.authType = Some(LOGIN_WITH_GOOGLE)
    /\ ctx.userTier = Some(TIER_FREE)
    /\ parsed.type = "GENERIC_QUOTA"
    /\ Includes(parsed.customMessage[1], Tok(GEMINI_CODE_ASSIST_UPGRADE_URL))
    /\ ~Includes(parsed.customMessage[1], Tok(APPRECIATION_NOTE))

\* A plain rate limit under Google login with an unlisted tier value carries
\* the base message alone.
C18_WitnessOtherTier ==
    /\ Returned
    /\ ctx.authType = Some(LOGIN_WITH_GOOGLE)
    /\ ctx.userTier = Some("other-tier")
    /\ parsed.type = "RATE_LIMIT"
    /\ parsed.customMessage = Some(RateLimitBase(FallbackName))

\* The customMessage parseError gives for the same error under the context c.
CustomMessageUnder(c) ==
    parseError(error, c.authType, c.userTier, c.currentModel, c.fallbackModel).customMessage

\* Contexts that differ from the call's context at most in the model names,
\* and at most in the current model name.
SameButModels == {c \in Contexts : c.authType = ctx.authType /\ c.userTier = ctx.userTier}
SameButCurrentModel == {c \in SameButModels : c.fallbackModel = ctx.fallbackModel}
SameButFallbackModel == {c \in SameButModels : c.currentModel = ctx.currentModel}

NamesBothModels ==
    /\ Includes(parsed.customMessage[1], Tok(CurrentName))
    /\ Includes(parsed.customMessage[1], Tok(FallbackName))

\* C19 as stated: under Google login the customMessage of PRO_QUOTA names both
\* models, that of GENERIC_QUOTA is the same for all model names, and that of
\* RATE_LIMIT is the same for all current model names.
C19_ModelDependenceByKind ==
    (Returned /\ Is429 /\ ctx.authType = Some(LOGIN_WITH_GOOGLE)) =>
        /\ parsed.type = "PRO_QUOTA" => NamesBothModels
        /\ parsed.type = "GENERIC_QUOTA" =>
              \A c \in SameButModels : CustomMessageUnder(c) = parsed.customMessage
        /\ parsed.type = "RATE_LIMIT" =>
              \A c \in SameButCurrentModel : CustomMessageUnder(c) = parsed.customMessage

\* C19 amended: under Google login the customMessage of PRO_QUOTA names both
\* models; that of GENERIC_QUOTA opens with a base message without a model
\* name and never depends on the fallback model, is the same for all model
\* names when the tier is not paid, and names the current model in the key
\* suggestion when the tier is paid; that of RATE_LIMIT is the same for all
\* current model names.
C19_ModelDependenceByKindAndTier ==
    (Returned /\ Is429 /\ ctx.authType = Some(LOGIN_WITH_GOOGLE)) =>
        /\ parsed.type = "PRO_QUOTA" => NamesBothModels
        /\ parsed.type = "GENERIC_QUOTA" =>
              /\ Head(parsed.customMessage[1]) = Tok("You have reached your daily quota limit.")
              /\ \A c \in SameButFallbackModel : CustomMessageUnder(c) = parsed.customMessage
              /\ ctx.userTier \notin PaidTiers =>
                    \A c \in SameButModels : CustomMessageUnder(c) = parsed.customMessage
              /\ ctx.userTier \in PaidTiers =>
                    /\ Includes(parsed.customMessage[1], Tok(CurrentName))
                    /\ \A c \in SameButModels :
                          CustomMessageUnder(c) = parsed.customMessage
                              <=> NameOf(c.currentModel, DEFAULT_GEMINI_MODEL) = CurrentName
        /\ parsed.type = "RATE_LIMIT" =>
              /\ Includes(parsed.customMessage[1], Tok(FallbackName))
              /\ \A c \in SameButCurrentModel : CustomMessageUnder(c) = parsed.customMessage

\* A plain rate limit under Google login with a paid tier and a given current
\* model has the customMessage it has without a current model.
C19_Witness ==
    /\ Returned
    /\ ctx.authType = Some(LOGIN_WITH_GOOGLE)
    /\ ctx.userTier \in PaidTiers
    /\ ctx.currentModel = Some("gemini-2.5-pro-preview")
    /\ parsed.type = "RATE_LIMIT"
    /\ CustomMessageUnder([ctx EXCEPT !.currentModel = Undefined]) = parsed.customMessage

\* A generic-quota 429 under Google login with a paid tier names the given
\* current model and has another customMessage without it.
C19_WitnessPaidGenericQuota ==
    /\ Returned
    /\ ctx.authType = Some(LOGIN_WITH_GOOGLE)
    /\ ctx.userTier \in PaidTiers
    /\ ctx.currentModel = Some("gemini-2.5-pro-preview")
    /\ parsed.type = "GENERIC_QUOTA"
    /\ Includes(parsed.customMessage[1], Tok("gemini-2.5-pro-preview"))
    /\ CustomMessageUnder([ctx EXCEPT !.currentModel = Undefined]) # parsed.customMessage

\* The kind the quota detectors find for the input.
DetectedKind ==
    IF isProQuotaExceededError(DetectionTargetOf(error)) THEN "PRO_QUOTA"
    ELSE IF isGenericQuotaExceededError(DetectionTargetOf(error)) THEN "GENERIC_QUOTA"
    ELSE "RATE_LIMIT"

SameAuthType == {c \in Contexts : c.authType = ctx.authType}

\* C20: for a 429 error the customMessage is one fixed string under a Gemini
\* API key and another under Vertex AI, whatever the kind, the tier and the
\* model names; under any auth method other than these two and Google login,
\* or none, it is the fallback sentence with the fallback model name, whatever
\* the kind, the tier and the current model; the type is the detected kind.
C20_FixedMessagePerAuthMethod ==
    (Returned /\ Is429 /\ ctx.authType # Some(LOGIN_WITH_GOOGLE)) =>
        /\ parsed.type = DetectedKind
        /\ ctx.authType = Some(USE_GEMINI) =>
              /\ parsed.customMessage = Some(<<Tok(RATE_LIMIT_ERROR_MESSAGE_USE_GEMINI)>>)
              /\ \A c \in SameAuthType : CustomMessageUnder(c) = parsed.customMessage
        /\ ctx.authType = Some(USE_VERTEX_AI) =>
              /\ parsed.customMessage = Some(<<Tok(RATE_LIMIT_ERROR_MESSAGE_VERTEX)>>)
              /\ \A c \in SameAuthType : CustomMessageUnder(c) = parsed.customMessage
        /\ ctx.authType \notin {Some(USE_GEMINI), Some(USE_VERTEX_AI)} =>
              /\ parsed.customMessage = Some(RateLimitBase(FallbackName))
              /\ \A c \in SameAuthType :
                    c.fallbackModel = ctx.fallbackModel =>
                        CustomMessageUnder(c) = parsed.customMessage

\* A pro-quota 429 under a Gemini API key with a paid tier has the fixed
\* string of that auth method.
C20_Witness ==
    /\ Returned
    /\ ctx.authType = Some(USE_GEMINI)
    /\ ctx.userTier = Some(TIER_STANDARD)
    /\ parsed.type = "PRO_QUOTA"
    /\ parsed.customMessage = Some(<<Tok(RATE_LIMIT_ERROR_MESSAGE_USE_GEMINI)>>)

\* A generic-quota 429 without an auth method has the fallback sentence with
\* the given fallback model.
C20_WitnessNoAuth ==
    /\ Returned
    /\ ctx.authType = Undefined
    /\ ctx.fallbackModel = Some("gemini-2.5-flash-lite")
    /\ parsed.type = "GENERIC_QUOTA"
    /\ parsed.customMessage = Some(RateLimitBase("gemini-2.5-flash-lite"))

\* The call's context with both model names passed explicitly: the given
\* name, and the fixed default where none or an empty one was given.
WithExplicitModels ==
    [ctx EXCEPT !.currentModel = Some(CurrentName), !.fallbackModel = Some(FallbackName)]

Supplied(model) == model # Undefined /\ model # Some("")

\* C21: a model name that is absent or empty is replaced by its fixed default,
\* so the customMessage equals that of a call passing the defaults
\* explicitly; a name that is given is the one written into the message.
C21_DefaultModelNames ==
    (Returned /\ Is429) =>
        /\ parsed.customMessage # Undefined
        /\ CustomMessageUnder(WithExplicitModels) = parsed.customMessage
        /\ (ctx.authType = Some(LOGIN_WITH_GOOGLE) /\ parsed.type = "PRO_QUOTA") =>
              /\ parsed.customMessage[1][2] =
                    Tok(IF Supplied(ctx.currentModel) THEN ctx.currentModel[1]
                        ELSE DEFAULT_GEMINI_MODEL)
              /\ parsed.customMessage[1][4] =
                    Tok(IF Supplied(ctx.fallbackModel) THEN ctx.fallbackModel[1]
                        ELSE DEFAULT_GEMINI_FLASH_MODEL)
        /\ (ctx.authType = Some(LOGIN_WITH_GOOGLE) /\ IsQuotaType(parsed.type)
              /\ ctx.userTier \in PaidTiers) =>
              Includes(parsed.customMessage[1],
                       Tok(IF Supplied(ctx.currentModel) THEN ctx.currentModel[1]
                           ELSE DEFAULT_GEMINI_MODEL))
        /\ (parsed.type = "RATE_LIMIT" \/ ctx.authType = Undefined
              \/ ctx.authType = Some(CLOUD_SHELL)) =>
              (ctx.authType \notin {Some(USE_GEMINI), Some(USE_VERTEX_AI)} =>
                  parsed.customMessage[1][3] =
                      Tok(IF Supplied(ctx.fallbackModel) THEN ctx.fallbackModel[1]
                          ELSE DEFAULT_GEMINI_FLASH_MODEL))

\* A pro-quota 429 under Google login with an empty current model and no
\* fallback model names the two defaults.
C21_Witness ==
    /\ Returned
    /\ ctx.authType = Some(LOGIN_WITH_GOOGLE)
    /\ ctx.currentModel = Some("")
    /\ ctx.fallbackModel = Undefined
    /\ parsed.type = "PRO_QUOTA"
    /\ parsed.customMessage[1][2] = Tok(DEFAULT_GEMINI_MODEL)
    /\ parsed.customMessage[1][4] = Tok(DEFAULT_GEMINI_FLASH_MODEL)

\* The same with both names given.
C21_WitnessSupplied ==
    /\ Returned
    /\ ctx.authType = Some(LOGIN_WITH_GOOGLE)
    /\ ctx.currentModel = Some("gemini-2.5-pro-preview")
    /\ ctx.fallbackModel = Some("gemini-2.5-flash-lite")
    /\ parsed.type = "PRO_QUOTA"
    /\ parsed.customMessage[1][2] = Tok("gemini-2.5-pro-preview")
    /\ parsed.customMessage[1][4] = Tok("gemini-2.5-flash-lite")

\* C22: a customMessage never begins with a newline (and holds none); the
\* legacy string ends with "]", one newline and the customMessage when there
\* is one, and with "]" and no newline at all when there is none.
C22_NewlineOnlyAsSeparator ==
    /\ (Returned /\ parsed.customMessage # Undefined) =>
           /\ parsed.customMessage[1] # <<>>
           /\ Head(parsed.customMessage[1]) # Tok("\n")
           /\ ~Includes(parsed.customMessage[1], Tok("\n"))
    /\ (pc = "formatted" /\ parsed.customMessage # Undefined) =>
           LET n == Len(text.str) - Len(parsed.customMessage[1])
           IN  /\ n >= 2
               /\ SubSeq(text.str, n + 1, Len(text.str)) = parsed.customMessage[1]
               /\ text.str[n] = Tok("\n")
               /\ text.str[n - 1] = Tok("]")
               /\ ~Includes(SubSeq(text.str, 1, n - 1), Tok("\n"))
    /\ (pc = "formatted" /\ parsed.customMessage = Undefined) =>
           /\ text.str[Len(text.str)] = Tok("]")
           /\ ~Includes(text.str, Tok("\n"))
           /\ IndexOfTok(text.str, Tok("]")) = Len(text.str)

\* A 429 under Google login has been formatted with its advice after one
\* newline.
C22_Witness ==
    /\ pc = "formatted"
    /\ ctx.authType = Some(LOGIN_WITH_GOOGLE)
    /\ parsed.customMessage # Undefined
    /\ Len(text.str) > Len(parsed.customMessage[1]) + 1
    /\ text.str[Len(text.str) - Len(parsed.customMessage[1])] = Tok("\n")

C24_WitnessStructured ==
    /\ Returned
    /\ ~parsed.threw
    /\ parsed.origin = "structured"
    /\ parsed.rawError = error

\* The first words of the three base sentences of the Google login message.
ModelQuotaSentence(cm) == Len(cm) >= 3 /\ cm[1] = Tok("You have reached your daily ")
                          /\ cm[3] = Tok(" quota limit. You will be switched to the ")
DailyQuotaSentence(cm) == cm # <<>> /\ cm[1] = Tok("You have reached your daily quota limit.")
FallbackSentence(cm) == cm # <<>> /\ cm[1] = Tok(DEFAULT_FALLBACK_PREFIX)

\* C25: under Google login the base sentence of a 429's customMessage is the
\* one of the returned type: the daily model quota sentence exactly for
\* PRO_QUOTA, the daily quota sentence exactly for GENERIC_QUOTA, the
\* fallback sentence exactly for RATE_LIMIT.
C25_BaseSentenceMatchesType ==
    (Returned /\ Is429 /\ ctx.authType = Some(LOGIN_WITH_GOOGLE)) =>
        /\ parsed.customMessage # Undefined
        /\ parsed.type \in {"PRO_QUOTA", "GENERIC_QUOTA", "RATE_LIMIT"}
        /\ ModelQuotaSentence(parsed.customMessage[1]) <=> parsed.type = "PRO_QUOTA"
        /\ DailyQuotaSentence(parsed.customMessage[1]) <=> parsed.type = "GENERIC_QUOTA"
        /\ FallbackSentence(parsed.customMessage[1]) <=> parsed.type = "RATE_LIMIT"

\* A pro-quota 429 under Google login carries the daily model quota sentence.
C25_Witness ==
    /\ Returned
    /\ Is429
    /\ ctx.authType = Some(LOGIN_WITH_GOOGLE)
    /\ parsed.type = "PRO_QUOTA"
    /\ ModelQuotaSentence(parsed.customMessage[1])

\* A generic-quota 429 under Google login carries the daily quota sentence.
C25_WitnessGeneric ==
    /\ Returned
    /\ Is429
    /\ ctx.authType = Some(LOGIN_WITH_GOOGLE)
    /\ parsed.type = "GENERIC_QUOTA"
    /\ DailyQuotaSentence(parsed.customMessage[1])

\* The previous implementation recognised an API error payload in a string:
\* the text from the first opening brace to the end parses as an API error.
PreviouslyRecognised(e) ==
    /\ e.ty = "string"
    /\ IndexOfTok(e.str, LB) > 0
    /\ ParsesAsApiError(PreviousJsonString(e.str))

PreviousString ==
    previousParseAndFormatApiError(error, ctx.authType, ctx.userTier,
                                   ctx.currentModel, ctx.fallbackModel)

\* C26: for a structured error, a value that is no string, a string without
\* an opening brace and a string in which the previous implementation
\* recognised an API error payload, the formatted string is the one the
\* previous implementation returned.
C26_SameStringAsPrevious ==
    (/\ pc = "formatted"
     /\ \/ isStructuredError(error)
        \/ error.ty # "string"
        \/ IndexOfTok(error.str, LB) = 0
        \/ PreviouslyRecognised(error)) =>
        /\ ~text.threw
        /\ text.str = PreviousString

\* The same without the recognised strings in which an opening brace
\* followed by the error key occurs after the first opening brace.
C26_SameStringUnlessInnerMarker ==
    (/\ pc = "formatted"
     /\ \/ isStructuredError(error)
        \/ error.ty # "string"
        \/ IndexOfTok(error.str, LB) = 0
        \/ /\ PreviouslyRecognised(error)
           /\ IndexOfMarker(error.str) \in {0, IndexOfTok(error.str, LB)}) =>
        /\ ~text.threw
        /\ text.str = PreviousString

\* The dialog has shown a message that was sent for a parsed error.
ShownForParsed == pc = "shown" /\ parsed.type # "none"

\* C23: the dialog shows a parsed error under the title of the ParsedError,
\* with the customMessage as content when there is one and the errorMessage
\* otherwise.
C23_DialogShowsParsedError ==
    ShownForParsed =>
        /\ shown.title = parsed.title
        /\ shown.content = StrV(IF parsed.customMessage # Undefined
                                THEN parsed.customMessage[1]
                                ELSE parsed.errorMessage)

\* No message sent for a quota error is shown under the title of the
\* ParsedError.
C23_QuotaTitleNeverShown ==
    (ShownForParsed /\ IsQuotaType(parsed.type)) => shown.title # parsed.title

DialogTitles == {"Information", "Rate Limit Exceeded", "Authentication Error", "API Error"}

\* C27: processInformationMessage returns for every input string, without
\* throwing, a title out of the four titles and a content that is a string;
\* an input that is no JSON text is the content, under "Information".
C27_TotalAndWellTyped ==
    pc = "shown" =>
        /\ ~shown.threw
        /\ shown.title \in DialogTitles
        /\ shown.content.ty = "string"
        /\ ~MsgJSONparse(dialogContent).ok =>
              shown = Processed("Information", StrV(dialogContent))

\* The same without the type of the content.
C27_TotalWithTitle ==
    pc = "shown" =>
        /\ ~shown.threw
        /\ shown.title \in DialogTitles
        /\ ~MsgJSONparse(dialogContent).ok =>
              shown = Processed("Information", StrV(dialogContent))

\* The content is a string unless the default case printed data that is not
\* there, or the message of the error is a value that is no string.
C27_ContentIsStringUnless ==
    (/\ pc = "shown"
     /\ shown.content.ty # "string") =>
        /\ MsgJSONparse(dialogContent).ok
        /\ \/ /\ shown.title = "Information"
              /\ MsgJSONparse(dialogContent).val.data = Undefined
           \/ /\ shown.title \in {"Authentication Error", "API Error"}
              /\ shown.content = Num(7)

\* The information message that was processed, and its parts.
TheMessage == MsgJSONparse(dialogContent)
IsApiErrorMessage ==
    TheMessage.ok /\ TheMessage.val.t = "obj" /\ TheMessage.val.type = <<API_ERROR>>
HasData == TheMessage.val.data # Undefined /\ TheMessage.val.data[1].t # "null"
OuterError == IF HasData THEN TheMessage.val.data[1].error ELSE Undefined
NestedJson ==
    IF TruthyString(MessageOf(OuterError))
    THEN MsgJSONparse(MessageOf(OuterError)[1].v)
    ELSE [ok |-> FALSE, val |-> MsgNull]
NestedError == IF NestedJson.ok THEN NestedJson.val.error ELSE Undefined

\* The title by the order of the rules: outer quota, outer auth, nested
\* quota, nested auth, else generic.
TitleByOuterThenNested ==
    IF \/ CodeOf(OuterError) = Some(429)
       \/ StatusOfError(OuterError) = Some(StrV("Too Many Requests"))
    THEN "Rate Limit Exceeded"
    ELSE IF CodeOf(OuterError) \in {Some(401), Some(403)} THEN "Authentication Error"
    ELSE IF \/ CodeOf(NestedError) = Some(429)
            \/ StatusOfError(NestedError) = Some(StrV("RESOURCE_EXHAUSTED"))
    THEN "Rate Limit Exceeded"
    ELSE IF CodeOf(NestedError) \in {Some(401), Some(403)} THEN "Authentication Error"
    ELSE "API Error"

\* C28 as stated: for every api_error message the title follows from the
\* outer error first and the nested error second, and is "API Error" in
\* every other case.
C28_OuterBeforeNestedForEveryApiError ==
    (pc = "shown" /\ IsApiErrorMessage) => shown.title = TitleByOuterThenNested

\* C28: for an api_error message whose data is there and not null the title
\* follows from the outer error first and the nested error second, and is
\* "API Error" in every other case; without data the input is shown as it
\* is under "Information".
C28_OuterBeforeNested ==
    (pc = "shown" /\ IsApiErrorMessage) =>
        IF HasData
        THEN shown.title = TitleByOuterThenNested
        ELSE shown = Processed("Information", StrV(dialogContent))

\* An outer 401 with a nested 429 is shown as an authentication error.
C28_Witness ==
    /\ pc = "shown"
    /\ IsApiErrorMessage
    /\ HasData
    /\ CodeOf(OuterError) = Some(401)
    /\ CodeOf(NestedError) = Some(429)
    /\ shown.title = "Authentication Error"

\* An outer error without code or status of its own is decided by the nested
\* status.
C28_WitnessNested ==
    /\ pc = "shown"
    /\ IsApiErrorMessage
    /\ HasData
    /\ CodeOf(OuterError) = Undefined
    /\ StatusOfError(OuterError) = Undefined
    /\ CodeOf(NestedError) = Some(500)
    /\ StatusOfError(NestedError) = Some(StrV("RESOURCE_EXHAUSTED"))
    /\ shown.title = "Rate Limit Exceeded"


\* ---------------------------------------------------------------------
\* The step is what handleGlobalKeypress does with the QUIT key (Ctrl+C).
QuitKeyPressed ==
    \E hasMcpServers \in BOOLEAN, ideContext \in BOOLEAN :
        app' = handleGlobalKeypress(app, "QUIT", hasMcpServers, ideContext)

\* The step is what handleGlobalKeypress does with the EXIT key (Ctrl+D).
ExitKeyPressed ==
    \E hasMcpServers \in BOOLEAN, ideContext \in BOOLEAN :
        app' = handleGlobalKeypress(app, "EXIT", hasMcpServers, ideContext)

\* The step hands "/quit" to handleSlashCommand.
QuitIssued == app'.quits > app.quits

\* Less than the timer's delay has passed since the timer was started.
InWindow(timer) == timer.st # "null" /\ timer.left > 0

\* Nothing that has to do with leaving changes.
ExitStateKept ==
    /\ app'.ctrlCPressedOnce = app.ctrlCPressedOnce
    /\ app'.ctrlCTimerRef = app.ctrlCTimerRef
    /\ app'.ctrlDPressedOnce = app.ctrlDPressedOnce
    /\ app'.ctrlDTimerRef = app.ctrlDTimerRef
    /\ app'.requestOngoing = app.requestOngoing
    /\ app'.quits = app.quits
    /\ app'.exitTimer = app.exitTimer

\* Ctrl+C quits only while ctrlCPressedOnce is set and less than
\* CTRL_EXIT_PROMPT_DURATION_MS after the first press.
QuitOnlyInWindow ==
    (QuitKeyPressed /\ QuitIssued) =>
        (app.ctrlCPressedOnce /\ InWindow(app.ctrlCTimerRef))

\* Ctrl+C quits only while ctrlCPressedOnce is set: less than
\* CTRL_EXIT_PROMPT_DURATION_MS after the first press, or after a press that
\* quit and cleared the timer.
QuitOnlyWhilePressedOnce ==
    (QuitKeyPressed /\ QuitIssued) =>
        /\ app.ctrlCPressedOnce
        /\ \/ app.ctrlCTimerRef.st = "pending" /\ InWindow(app.ctrlCTimerRef)
           \/ app.ctrlCTimerRef.st = "cleared" /\ app.quits > 0

\* A first press sets the flag, cancels the request, starts the timer and
\* does not quit.
FirstPressArms ==
    (QuitKeyPressed /\ ~app.ctrlCPressedOnce /\ ~app.isAuthenticating) =>
        /\ app'.ctrlCPressedOnce
        /\ ~app'.requestOngoing
        /\ app'.ctrlCTimerRef = setTimeout(CTRL_EXIT_PROMPT_DURATION_MS)
        /\ ~QuitIssued

QuitIgnoredWhileAuthenticating ==
    (QuitKeyPressed /\ app.isAuthenticating) => ExitStateKept

ExitIgnoredWhileBufferNonEmpty ==
    (ExitKeyPressed /\ app.bufferTextLength > 0) => ExitStateKept

KeysDoNotArmEachOther ==
    /\ QuitKeyPressed =>
          /\ app'.ctrlDPressedOnce = app.ctrlDPressedOnce
          /\ app'.ctrlDTimerRef = app.ctrlDTimerRef
    /\ ExitKeyPressed =>
          /\ app'.ctrlCPressedOnce = app.ctrlCPressedOnce
          /\ app'.ctrlCTimerRef = app.ctrlCTimerRef

\* Without a second press the timer resets ctrlCPressedOnce.
TimerResetsFlag ==
    (app.ctrlCPressedOnce /\ app.ctrlCTimerRef.st = "pending")
        ~> (~app.ctrlCPressedOnce \/ app.ctrlCTimerRef.st = "cleared")

C29_WitnessThirdPress ==
    /\ app.quits = 2
    /\ app.ctrlCTimerRef.st = "cleared"
    /\ app.ctrlCTimerRef.left = 0
    /\ ~app.ctrlDPressedOnce
    /\ ~app.exited


\* ---------------------------------------------------------------------
\* The ten flags in the order of their priority, and the dialog of each.
DialogPriority ==
    << <<"shouldShowIdePrompt", "IdeIntegrationNudge">>,
       <<"isFolderTrustDialogOpen", "FolderTrustDialog">>,
       <<"shellConfirmationRequest", "ShellConfirmationDialog">>,
       <<"confirmationRequest", "RadioButtonSelect">>,
       <<"isThemeDialogOpen", "ThemeDialog">>,
       <<"isSettingsDialogOpen", "SettingsDialog">>,
       <<"isAuthenticating", "AuthInProgress">>,
       <<"isAuthDialogOpen", "AuthDialog">>,
       <<"isEditorDialogOpen", "EditorSettingsDialog">>,
       <<"showPrivacyNotice", "PrivacyNotice">> >>

Dialogs == {DialogPriority[i][2] : i \in DOMAIN DialogPriority}

\* The places in the priority order whose flag is set.
FlagsSet == {i \in DOMAIN DialogPriority : uiState[DialogPriority[i][1]]}

\* The dialog of the first flag that is set.
FirstDialog ==
    IF FlagsSet = {} THEN {}
    ELSE {DialogPriority[CHOOSE i \in FlagsSet : \A j \in FlagsSet : i <= j][2]}

\* At most one dialog, the one of the highest priority; DialogManager renders
\* nothing exactly when no flag is set, exactly when dialogsVisible is false.
OneDialogByPriority ==
    /\ Cardinality(rendered \cap Dialogs) <= 1
    /\ DialogManager(uiState) = FirstDialog
    /\ (DialogManager(uiState) = {}) <=> (FlagsSet = {})
    /\ (FlagsSet = {}) <=> ~dialogsVisible(uiState)
    /\ ~("InputArea" \in rendered /\ rendered \cap Dialogs # {})

\* C30 as claimed: in every UI state at most one dialog is rendered, chosen
\* by the fixed priority; DialogManager renders nothing exactly when none of
\* the ten flags is set, exactly when dialogsVisible is false; the input area
\* and a dialog are never shown together, and never is neither shown.
C30_DialogOrInputAlways ==
    /\ OneDialogByPriority
    /\ "InputArea" \in rendered \/ rendered \cap Dialogs # {}

\* C30, amended: as claimed, except that neither the input area nor a dialog
\* is shown while quittingMessages is set; otherwise the dialog of the
\* highest priority is shown when a flag is set and the input area when none.
C30_DialogOrInputUnlessQuitting ==
    /\ OneDialogByPriority
    /\ IF uiState.quittingMessages
       THEN "InputArea" \notin rendered /\ rendered \cap Dialogs = {}
       ELSE /\ rendered \cap Dialogs = FirstDialog
            /\ ("InputArea" \in rendered) <=> (FlagsSet = {})

\* Two flags are set and the dialog of the higher priority is on the screen.
C30_Witness ==
    /\ uiState.isThemeDialogOpen
    /\ uiState.showPrivacyNotice
    /\ Cardinality(FlagsSet) = 2
    /\ ~uiState.quittingMessages
    /\ rendered \cap Dialogs = {"ThemeDialog"}

\* No flag is set and the input area is on the screen.
C30_WitnessInput ==
    /\ FlagsSet = {}
    /\ ~uiState.quittingMessages
    /\ "InputArea" \in rendered

\* The quitting messages are on the screen although a flag is set.
C30_WitnessQuitting ==
    /\ uiState.quittingMessages
    /\ FlagsSet # {}
    /\ rendered = {"HistoryItemDisplay"}
====
